---- MODULE Spec2Model ----
(***************************************************************************)
(* Leave-adjudication pipeline of the workforce service: the leave-request *)
(* service (create / updateStatus / delete), the employee service, the     *)
(* paginated department reads, the queue producer and the worker.          *)
(*                                                                         *)
(* Every `await` of the TypeScript source is one step of the model: the    *)
(* code between two awaits runs without interleaving (single-threaded      *)
(* event loop), the awaited Redis / store / broker command is atomic.      *)
(* A store transaction is one atomic step.  Expiry of cache entries (24 h  *)
(* for idempotency records, 60 s for pages) lies outside the modelled      *)
(* horizon.                                                                *)
(***************************************************************************)
EXTENDS Integers, Sequences, FiniteSets, TLC

\* ------------------------------------------------------------------ bounds
MaxCalls    == 3      \* API requests started in a run
MaxLeaves   == 1      \* leave requests created in a run of the queue pipeline
MaxFaults   == 1      \* injected store failures in a run
MaxConnects == 3      \* connect attempts made in a run
MaxWraps    == 2      \* Buffer-in-JSON nesting depth tracked in a body
FailCap     == 7      \* saturation of the per-lineage failure counter

\* ------------------------------------------------------- program constants
MAX_RETRIES         == 5
Day                 == 24 * 60 * 60 * 1000
TwoDays             == 2 * 24 * 60 * 60 * 1000
RABBITMQ_QUEUE_NAME == "leave_requests"
RABBITMQ_DLQ_NAME   == "leave_requests_dlq"

\* ------------------------------------------------------------ input sets
Null        == "null"
Undefined   == "undefined"   \* `${undefined}` in a key template
UndefinedId == 0             \* a leaveId that JSON.parse did not find
MissingLeaveId == MaxCalls + 1   \* an id that names no row
ApiCallers == {"a1", "a2"}
Workers    == {"w1"}        \* the activation of the consume callback the serialized pipelines use
Handlers   == {"w1", "w2"}  \* activations of the consume callback on the one channel
Callers    == ApiCallers \cup Handlers
IdemKeys   == {"k1", "k2"}
DeptIds    == {"d1", "d2"}
EmployeeIds == {"e1", "e2"}
MissingEmployee == "e9"
MissingDept == "d9"
Emails     == {"a@x.io", "b@x.io"}
Statuses   == {"PENDING", "APPROVED", "REJECTED"}
StartDates == {Day}
EndDates   == {0, Day, 2 * Day, 3 * Day}
Pages      == {1, 2}
Limits     == {1}
Variants   == {"employees", "employeesWithLeaves"}

VARIABLES
    employees,    \* store: Employee rows in insertion order
    departments,  \* store: ids of the Department rows
    leaves,       \* store: LeaveRequest rows, id -> row
    nextLeaveId,  \* store: next generated LeaveRequest id
    cache,        \* Redis: key -> value
    mainQueue,    \* broker: messages waiting in leave_requests
    unacked,      \* broker: delivered, unacknowledged message per worker handler
    dlq,          \* broker: messages in leave_requests_dlq
    pendingPub,   \* sendMessageToQueue calls waiting on getChannel()
    calls,        \* per caller: the running operation, its position and locals
    started,      \* number of API requests started
    faults,       \* store failures injected so far
    succeeded,    \* history: <<operation, key>> of the calls that returned normally
    commits,      \* history: the committed createLeaveRequest inserts
    connectionPromise,  \* rabbitmq.ts: the cached connect attempt, or NoPromise
    connections,  \* connect attempts made so far, in order: the state of each
    returned,     \* per caller: the attempt its last getConnection() returned
    boot,         \* server.ts: position and locals of startApp / initializeServices
    requests      \* per caller: its HTTP request on the way through the middlewares

storeVars == <<employees, departments, leaves, nextLeaveId>>
queueVars == <<mainQueue, unacked, dlq, pendingPub>>
processVars == <<connectionPromise, connections, returned, boot, requests>>
vars == <<employees, departments, leaves, nextLeaveId, cache, mainQueue,
          unacked, dlq, pendingPub, calls, started, faults, succeeded, commits,
          connectionPromise, connections, returned, boot, requests>>

\* ------------------------------------------------------------- cache keys
\* `idempotency:${namespace}:${key}`
IdemKey(ns, k) ==
    [kind |-> "idempotency", ns |-> ns, key |-> k,
     dept |-> Null, variant |-> Null, page |-> 0, limit |-> 0]
\* `departments:${departmentId}:${variant}:page=${page}&limit=${limit}`
PageKey(d, v, p, l) ==
    [kind |-> "departments", ns |-> Null, key |-> Null,
     dept |-> d, variant |-> v, page |-> p, limit |-> l]

\* variant names that extend the literal "employees" of the scan pattern
StartsWithEmployees(v) == v \in {"employees", "employeesWithLeaves"}

\* a scan pattern that does not name the department: departments:*:employees*
KeysMatching_AnyDepartment(c, d) ==
    {k \in DOMAIN c : k.kind = "departments" /\ StartsWithEmployees(k.variant)}

\* redisClient.keys(`departments:${departmentId}:employees*`)
KeysMatching(c, d) ==
    {k \in DOMAIN c : /\ k.kind = "departments"
                      /\ k.dept = d
                      /\ StartsWithEmployees(k.variant)}

\* redisClient.setEx(key, ttl, value)
SetEx(c, k, v) == [x \in DOMAIN c \cup {k} |-> IF x = k THEN v ELSE c[x]]

\* redisClient.del(keys)
Del(c, ks) == [x \in DOMAIN c \ ks |-> c[x]]

\* redisClient.get(key)
Exists(c, k) == k \in DOMAIN c

\* ------------------------------------------------- absent values, by type
NoPayload  == [employeeId |-> Null, startDate |-> 0, endDate |-> 0]
NoEmployee == [id |-> Null, email |-> Null, departmentId |-> Null]
NoRow      == [id |-> 0, employeeId |-> Null, startDate |-> 0, endDate |-> 0,
               status |-> Null]
NoInfo     == [email |-> Null, departmentId |-> Null]
NoResponse == [data |-> <<>>, count |-> 0, page |-> 0, limit |-> 0]

\* ------------------------------------------------------------------ store
\* EmployeeRepository.getEmployeeById
getEmployeeById(id) ==
    IF \E i \in 1..Len(employees) : employees[i].id = id
    THEN employees[CHOOSE i \in 1..Len(employees) : employees[i].id = id]
    ELSE NoEmployee

\* LeaveRequestRepository.findById
findById(id) == IF id \in DOMAIN leaves THEN leaves[id] ELSE NoRow

\* createRequest with the spread after the status: { status: "PENDING", ...leaveInfo }
createRequest_PayloadWins(leaveInfo) ==
    [f \in DOMAIN leaveInfo \cup {"id", "status"} |->
        CASE f = "id" -> nextLeaveId
          [] f = "status" /\ f \notin DOMAIN leaveInfo -> "PENDING"
          [] OTHER -> leaveInfo[f]]

\* LeaveRequestRepository.createRequest: repo.create({ ...leaveInfo, status:
\* "PENDING" }) and save, which generates the id
createRequest(leaveInfo) ==
    [f \in DOMAIN leaveInfo \cup {"id", "status"} |->
        CASE f = "id" -> nextLeaveId
          [] f = "status" -> "PENDING"
          [] OTHER -> leaveInfo[f]]

\* ----------------------------------------------------------------- errors
Ok         == [kind |-> "ok", msg |-> <<>>]
ReturnNull == [kind |-> "null", msg |-> <<>>]
Err(k, m)  == [kind |-> k, msg |-> m]
Duplicate  == "Duplicate request: operation already performed with this idempotency key"
NoResult   == [kind |-> "none", msg |-> <<>>]
Threw(r)   == r.kind \notin {"none", "ok", "null"}

\* --------------------------------------------------------------- messages
NoHeaders == [h \in {} |-> 0]
NoBody    == [wraps |-> 0, json |-> TRUE, leaveId |-> UndefinedId,
              idempotencyKey |-> Null]

\* a body that is not JSON text (published by some other producer)
NotJson   == [wraps |-> 0, json |-> FALSE, leaveId |-> UndefinedId,
              idempotencyKey |-> Null]

\* the two kinds of argument sendMessageToQueue is called with
ObjectMessage(k, l) ==
    [type |-> "object", idempotencyKey |-> k, leaveId |-> l, content |-> NoBody]
BufferMessage(b) ==
    [type |-> "buffer", idempotencyKey |-> Null, leaveId |-> UndefinedId, content |-> b]

\* JSON.stringify of the producer's argument: an object {idempotencyKey,
\* leaveId}, or a Buffer, which serialises as {"type":"Buffer","data":[...]}
JSONstringify(m) ==
    IF m.type = "object"
    THEN [wraps |-> 0, json |-> TRUE, leaveId |-> m.leaveId,
          idempotencyKey |-> m.idempotencyKey]
    ELSE [wraps |-> IF m.content.wraps < MaxWraps THEN m.content.wraps + 1 ELSE MaxWraps,
          json |-> TRUE,
          leaveId |-> m.content.leaveId,
          idempotencyKey |-> m.content.idempotencyKey]

\* JSON.parse throws a SyntaxError on a body that is not JSON
JSONparseThrows(b) == ~b.json

\* JSON.parse(msg.content.toString()) read as {leaveId, idempotencyKey}
JSONparse(b) ==
    IF b.wraps = 0
    THEN [leaveId |-> b.leaveId, idempotencyKey |-> b.idempotencyKey]
    ELSE [leaveId |-> UndefinedId, idempotencyKey |-> Undefined]

\* ------------------------------------------------------------------ calls

\* locals of one call; txn, records, dels and sent log what the call has done
Idle ==
    [op |-> "idle", pc |-> "idle", key |-> Null, id |-> 0, status |-> Null,
     payload |-> NoPayload, info |-> NoInfo, dept |-> Null, variant |-> Null,
     page |-> 0, limit |-> 0,
     employee |-> NoEmployee, existing |-> NoRow, row |-> NoRow,
     keys |-> {}, fetched |-> {},
     response |-> NoResponse,
     result |-> NoResult, txn |-> 0, records |-> 0, dels |-> 0, sent |-> <<>>,
     afterSuccess |-> FALSE, afterRecord |-> FALSE, prior |-> NoResult,
     outcome |-> Null]

\* the response listEmployeesInDepartment("d1", 1, 1) computes from the
\* initial store
FirstPage ==
    [data |-> << [id |-> "e1", email |-> "a@x.io", departmentId |-> "d1",
                  leaveRequests |-> {}] >>,
     count |-> 1, page |-> 1, limit |-> 1]

\* let connectionPromise: Promise<ChannelModel> | null = null; connect
\* attempts are numbered from 1
NoPromise == 0

\* no request: todo lists the handlers still to be invoked, nexts logs, per
\* middleware, the arguments of its next() calls
NoRequest ==
    [route |-> Null, body |-> {}, hasKey |-> FALSE, todo |-> <<>>,
     nexts |-> [m \in {"validator", "idempotency"} |-> <<>>],
     handled |-> 0, errors |-> 0]

\* the process has just started: no connect attempt has been made
ProcessInit ==
    /\ connectionPromise = NoPromise
    /\ connections = <<>>
    /\ returned = [c \in ApiCallers |-> NoPromise]
    /\ boot = [pc |-> "database",
               services |-> [database |-> FALSE, redis |-> FALSE, rabbitmq |-> FALSE],
               order |-> <<>>, open |-> {}, closed |-> {}, conn |-> NoPromise,
               result |-> "none", listening |-> FALSE]
    /\ requests = [c \in ApiCallers |-> NoRequest]

\* One employee of department d1 exists, and the first page of that
\* department has been read and cached.
Init ==
    /\ ProcessInit
    /\ employees = << [id |-> "e1", email |-> "a@x.io", departmentId |-> "d1"] >>
    /\ departments = DeptIds
    /\ leaves = [i \in {} |-> NoRow]
    /\ nextLeaveId = 1
    /\ cache = SetEx([k \in {} |-> Null], PageKey("d1", "employees", 1, 1), FirstPage)
    /\ mainQueue = <<>>
    /\ unacked = [w \in {} |-> Null]
    /\ dlq = <<>>
    /\ pendingPub = {}
    /\ calls = [c \in Callers |-> Idle]
    /\ started = 0
    /\ faults = 0
    /\ succeeded = {}
    /\ commits = {}

\* --------------------------------------------------- createLeaveRequest
Set(c, r) == calls' = [calls EXCEPT ![c] = r]
Admit == started < MaxCalls /\ started' = started + 1

\* history: how an earlier call of operation op with key k, settled and still
\* held by its caller, ended (NoResult when there is none)
Prior(op, k) ==
    LET earlier == {d \in ApiCallers : /\ calls[d].op = op /\ calls[d].pc = "done"
                                       /\ calls[d].key = k}
    IN  IF earlier = {} THEN NoResult ELSE calls[CHOOSE d \in earlier : TRUE].result

\* one prefix for every operation: idempotency:<key>
Namespace_Shared(op) == "shared"

\* idempotency:leaverequest:create:<key> and its siblings
Namespace(op) ==
    CASE op = "create"   -> "leaverequest:create"
      [] op = "update"   -> "leaverequest:update"
      [] op = "delete"   -> "leaverequest:delete"
      [] op = "employee" -> "employee"
      [] OTHER           -> "department"

\* a request arrives; the call runs up to its first await (redisClient.get)
StartCreate(c, payload, k) ==
    /\ c \in ApiCallers
    /\ calls[c].op = "idle"
    /\ Admit
    /\ Set(c, [Idle EXCEPT !.op = "create", !.pc = "check", !.key = k,
                           !.payload = payload,
                           !.afterSuccess = (<<"create", k>> \in succeeded),
                           !.afterRecord = Exists(cache, IdemKey(Namespace("create"), k)),
                           !.prior = Prior("create", k)])
    /\ UNCHANGED <<storeVars, cache, queueVars, faults, succeeded, commits, processVars>>

\* createLeaveRequest without its duplicate test: the call goes on to the
\* employee lookup whatever the cache holds
CreateCheck_Unguarded(c) ==
    /\ calls[c].op = "create" /\ calls[c].pc = "check"
    /\ Set(c, [calls[c] EXCEPT !.pc = "employee"])
    /\ UNCHANGED <<storeVars, cache, queueVars, started, faults, succeeded, commits, processVars>>

\* const existing = await redisClient.get(idempotencyRedisKey)
CreateCheck(c) ==
    /\ calls[c].op = "create" /\ calls[c].pc = "check"
    /\ IF Exists(cache, IdemKey(Namespace("create"), calls[c].key))
       THEN Set(c, [calls[c] EXCEPT !.pc = "done",
                                    !.result = Err("ConflictError", <<Duplicate>>)])
       ELSE Set(c, [calls[c] EXCEPT !.pc = "employee"])
    /\ UNCHANGED <<storeVars, cache, queueVars, started, faults, succeeded, commits, processVars>>

\* createLeaveRequest with the date validation ahead of the employee test
CreateEmployeeLookup_DatesFirst(c) ==
    /\ calls[c].op = "create" /\ calls[c].pc = "employee"
    /\ LET employee == getEmployeeById(calls[c].payload.employeeId)
           payload == calls[c].payload
       IN  IF payload.startDate >= payload.endDate
           THEN Set(c, [calls[c] EXCEPT !.pc = "done",
                    !.result = Err("BadRequestError",
                        <<"End date must be after start date">>)])
           ELSE IF employee = NoEmployee
           THEN Set(c, [calls[c] EXCEPT !.pc = "done",
                    !.result = Err("NotFoundError",
                        <<"Employee with ID", payload.employeeId, "not found">>)])
           ELSE Set(c, [calls[c] EXCEPT !.pc = "txn", !.employee = employee])
    /\ UNCHANGED <<storeVars, cache, queueVars, started, faults, succeeded, commits, processVars>>

\* const employee = await this.employeeRepo.getEmployeeById(...), then the
\* date validation, which needs no await
CreateEmployeeLookup(c) ==
    /\ calls[c].op = "create" /\ calls[c].pc = "employee"
    /\ LET employee == getEmployeeById(calls[c].payload.employeeId)
           payload == calls[c].payload
       IN  IF employee = NoEmployee
           THEN Set(c, [calls[c] EXCEPT !.pc = "done",
                    !.result = Err("NotFoundError",
                        <<"Employee with ID", payload.employeeId, "not found">>)])
           ELSE IF payload.startDate >= payload.endDate
           THEN Set(c, [calls[c] EXCEPT !.pc = "done",
                    !.result = Err("BadRequestError",
                        <<"End date must be after start date">>)])
           ELSE Set(c, [calls[c] EXCEPT !.pc = "txn", !.employee = employee])
    /\ UNCHANGED <<storeVars, cache, queueVars, started, faults, succeeded, commits, processVars>>

\* no duration test: every created leave request is queued
ShortLeave_Always(payload) == payload.endDate >= payload.startDate

\* the duration test with <= in place of <
ShortLeave_Inclusive(payload) == payload.endDate - payload.startDate <= TwoDays

\* leaveDuration < 2 * 24 * 60 * 60 * 1000
ShortLeave(payload) == payload.endDate - payload.startDate < TwoDays

\* the tail of createLeaveRequest after its last await: the duration test,
\* the un-awaited sendMessageToQueue call and the return
CreateFinish(c, r) ==
    LET m == ObjectMessage(r.key, r.row.id)
    IN  /\ IF ShortLeave(r.payload)
           THEN /\ Set(c, [r EXCEPT !.pc = "done", !.result = Ok, !.sent = Append(@, m)])
                /\ pendingPub' = pendingPub \cup
                       {[message |-> m, fails |-> 0, retry |-> FALSE, count |-> 0]}
           ELSE /\ Set(c, [r EXCEPT !.pc = "done", !.result = Ok])
                /\ UNCHANGED pendingPub
        /\ succeeded' = succeeded \cup {<<"create", r.key>>}
        /\ UNCHANGED commits

\* const created = await this.dataSource.transaction(...): commit
CreateTxn(c) ==
    /\ calls[c].op = "create" /\ calls[c].pc = "txn"
    /\ LET created == createRequest(calls[c].payload)
       IN  /\ leaves' = [i \in DOMAIN leaves \cup {created.id} |->
                            IF i = created.id THEN created ELSE leaves[i]]
           /\ nextLeaveId' = nextLeaveId + 1
           /\ Set(c, [calls[c] EXCEPT !.pc = "record", !.row = created, !.txn = @ + 1])
           /\ commits' = commits \cup {[key |-> calls[c].key, id |-> created.id,
                                         afterRecord |-> calls[c].afterRecord]}
    /\ UNCHANGED <<employees, departments, cache, queueVars, started, faults, succeeded, processVars>>

\* a failed transaction after which the message is published all the same
CreateTxnFail_Publishes(c) ==
    /\ calls[c].op = "create" /\ calls[c].pc = "txn"
    /\ faults < MaxFaults
    /\ faults' = faults + 1
    /\ UNCHANGED processVars
    /\ pendingPub' = pendingPub \cup
           {[message |-> ObjectMessage(calls[c].key, nextLeaveId),
             fails |-> 0, retry |-> FALSE, count |-> 0]}
    /\ Set(c, [calls[c] EXCEPT !.pc = "done", !.txn = @ + 1,
                               !.result = Err("QueryFailedError", <<"Database error">>)])
    /\ UNCHANGED <<storeVars, cache, mainQueue, unacked, dlq, started, succeeded, commits>>

\* a failed transaction that nevertheless leaves an idempotency record
CreateTxnFail_Records(c) ==
    /\ calls[c].op = "create" /\ calls[c].pc = "txn"
    /\ faults < MaxFaults
    /\ faults' = faults + 1
    /\ UNCHANGED processVars
    /\ cache' = SetEx(cache, IdemKey(Namespace("create"), calls[c].key),
                      [leaveRequestId |-> 0])
    /\ Set(c, [calls[c] EXCEPT !.pc = "done", !.txn = @ + 1,
                               !.result = Err("QueryFailedError", <<"Database error">>)])
    /\ UNCHANGED <<storeVars, queueVars, started, succeeded, commits>>

\* the transaction rejects (store unavailable, constraint violation)
CreateTxnFail(c) ==
    /\ calls[c].op = "create" /\ calls[c].pc = "txn"
    /\ faults < MaxFaults
    /\ faults' = faults + 1
    /\ UNCHANGED processVars
    /\ Set(c, [calls[c] EXCEPT !.pc = "done", !.txn = @ + 1,
                               !.result = Err("QueryFailedError", <<"Database error">>)])
    /\ UNCHANGED <<storeVars, cache, queueVars, started, succeeded, commits>>

\* await redisClient.setEx(idempotencyRedisKey, IDEMPOTENCY_TTL, ...)
CreateRecord(c) ==
    /\ calls[c].op = "create" /\ calls[c].pc = "record"
    /\ cache' = SetEx(cache, IdemKey(Namespace("create"), calls[c].key),
                      [leaveRequestId |-> calls[c].row.id])
    /\ LET r == [calls[c] EXCEPT !.records = @ + 1]
       IN  IF r.employee.departmentId # Null
           THEN /\ Set(c, [r EXCEPT !.pc = "keys"])
                /\ UNCHANGED <<pendingPub, succeeded, commits>>
           ELSE CreateFinish(c, r)
    /\ UNCHANGED <<storeVars, mainQueue, unacked, dlq, started, faults, processVars>>

\* const keys = await redisClient.keys(`departments:${departmentId}:employees*`)
CreateKeys(c) ==
    /\ calls[c].op = "create" /\ calls[c].pc = "keys"
    /\ LET keys == KeysMatching(cache, calls[c].employee.departmentId)
           r == [calls[c] EXCEPT !.keys = keys]
       IN  IF keys # {}
           THEN /\ Set(c, [r EXCEPT !.pc = "del"])
                /\ UNCHANGED <<pendingPub, succeeded, commits>>
           ELSE CreateFinish(c, r)
    /\ UNCHANGED <<storeVars, cache, mainQueue, unacked, dlq, started, faults, processVars>>

\* if (keys.length) await redisClient.del(keys)
CreateDel(c) ==
    /\ calls[c].op = "create" /\ calls[c].pc = "del"
    /\ cache' = Del(cache, calls[c].keys)
    /\ CreateFinish(c, [calls[c] EXCEPT !.dels = @ + 1])
    /\ UNCHANGED <<storeVars, mainQueue, unacked, dlq, started, faults, processVars>>

\* ------------------------------------------------------------ the worker
\* headers["x-retry-count"] || 0
RetryHeader(headers) ==
    IF "x-retry-count" \in DOMAIN headers THEN headers["x-retry-count"] ELSE 0

\* const retryCount = (headers["x-retry-count"] || 0) + 1
RetryCount(msg) == RetryHeader(msg.headers) + 1

\* the dead-letter test with >= in place of >
Exhausted_AtMax(msg) == RetryCount(msg) >= MAX_RETRIES

\* retryCount > Settings.MAX_RETRIES
Exhausted(msg) == RetryCount(msg) > MAX_RETRIES

\* dead-letter headers without the spread: { "x-original-queue": ... }
DlqHeaders_OriginOnly(headers) ==
    [h \in {"x-original-queue"} |-> RABBITMQ_QUEUE_NAME]

\* { ...headers, "x-original-queue": Settings.RABBITMQ_QUEUE_NAME }
DlqHeaders(headers) ==
    [h \in DOMAIN headers \cup {"x-original-queue"} |->
        IF h = "x-original-queue" THEN RABBITMQ_QUEUE_NAME ELSE headers[h]]

Saturate(n) == IF n < FailCap THEN n + 1 ELSE FailCap

Ack(w) == unacked' = [x \in DOMAIN unacked \ {w} |-> unacked[x]]

\* the catch block of handleMessage up to its channel.ack: dead-letter the
\* body, or hand it to sendMessageToQueue for a re-publish
Catch(w, r, msg) ==
    IF Exhausted(msg)
    THEN /\ dlq' = Append(dlq, [content |-> msg.content,
                                headers |-> DlqHeaders(msg.headers),
                                persistent |-> TRUE,
                                fails |-> Saturate(msg.fails)])
         /\ Set(w, [r EXCEPT !.outcome = "dlq"])
         /\ UNCHANGED pendingPub
    ELSE /\ pendingPub' = pendingPub \cup
                {[message |-> BufferMessage(msg.content),
                  fails |-> Saturate(msg.fails), retry |-> TRUE,
                  count |-> RetryCount(msg)]}
         /\ Set(w, [r EXCEPT !.outcome = "requeue"])
         /\ UNCHANGED dlq

\* handleMessage without the channel.ack that follows a successful updateStatus
Settle_NoAck(w, r) ==
    LET msg == unacked[w]
    IN  IF ~Threw(r.result)
        THEN /\ Set(w, [r EXCEPT !.outcome = "ack"])
             /\ UNCHANGED <<mainQueue, unacked, dlq, pendingPub>>
        ELSE /\ Catch(w, r, msg)
             /\ Ack(w)
             /\ UNCHANGED mainQueue

\* handleMessage once updateStatus has settled: ack on success, otherwise the
\* catch block (dead-letter or re-publish through sendMessageToQueue, then ack)
Settle(w, r) ==
    LET msg == unacked[w]
    IN  IF ~Threw(r.result)
        THEN /\ Ack(w)
             /\ Set(w, [r EXCEPT !.outcome = "ack"])
             /\ UNCHANGED <<mainQueue, dlq, pendingPub>>
        ELSE /\ Catch(w, r, msg)
             /\ Ack(w)
             /\ UNCHANGED mainQueue

\* an operation of the leave-request service settles with result res
EndCall(c, r, res) ==
    LET done == [r EXCEPT !.pc = "done", !.result = res]
    IN  /\ IF c \in Handlers
           THEN Settle(c, done)
           ELSE Set(c, done) /\ UNCHANGED queueVars
        /\ succeeded' = IF res = Ok /\ r.op # "read"
                        THEN succeeded \cup {<<r.op, r.key>>} ELSE succeeded
        /\ UNCHANGED commits

\* handleMessage with JSON.parse ahead of the try block: the SyntaxError
\* leaves the handler, the delivery is neither re-published nor acknowledged
handleMessage_ParseOutsideTry(w) ==
    /\ w \in Handlers
    /\ calls[w].op = "idle"
    /\ mainQueue # <<>>
    /\ LET msg == Head(mainQueue)
           data == JSONparse(msg.content)
       IN  /\ mainQueue' = Tail(mainQueue)
           /\ IF JSONparseThrows(msg.content)
              THEN /\ Set(w, [Idle EXCEPT !.op = "parse", !.pc = "done",
                                  !.result = Err("SyntaxError", <<"Unexpected token">>),
                                  !.outcome = "throw"])
                   /\ UNCHANGED unacked
              ELSE /\ unacked' = [x \in DOMAIN unacked \cup {w} |->
                                     IF x = w THEN msg ELSE unacked[x]]
                   /\ Set(w, [Idle EXCEPT !.op = "update", !.pc = "check",
                                  !.id = data.leaveId, !.status = "APPROVED",
                                  !.key = data.idempotencyKey,
                                  !.afterSuccess =
                                      (<<"update", data.idempotencyKey>> \in succeeded)])
    /\ UNCHANGED <<storeVars, cache, dlq, pendingPub, started, faults, succeeded, commits, processVars>>

\* channel.consume callback: handleMessage parses the body and calls
\* updateStatus(data.leaveId, "APPROVED", data.idempotencyKey); a body that
\* does not parse goes through the catch block at once (no await in between)
handleMessage(w) ==
    /\ w \in Handlers
    /\ calls[w].op = "idle"
    /\ mainQueue # <<>>
    /\ LET msg == Head(mainQueue)
           data == JSONparse(msg.content)
       IN  /\ mainQueue' = Tail(mainQueue)
           /\ IF JSONparseThrows(msg.content)
              THEN /\ Catch(w, [Idle EXCEPT !.op = "parse", !.pc = "done",
                                    !.result = Err("SyntaxError", <<"Unexpected token">>)],
                             msg)
                   /\ UNCHANGED unacked
              ELSE /\ unacked' = [x \in DOMAIN unacked \cup {w} |->
                                     IF x = w THEN msg ELSE unacked[x]]
                   /\ Set(w, [Idle EXCEPT !.op = "update", !.pc = "check",
                                  !.id = data.leaveId, !.status = "APPROVED",
                                  !.key = data.idempotencyKey,
                                  !.afterSuccess =
                                      (<<"update", data.idempotencyKey>> \in succeeded)])
                   /\ UNCHANGED <<dlq, pendingPub>>
    /\ UNCHANGED <<storeVars, cache, started, faults, succeeded, commits, processVars>>

\* another producer publishes a body that is not JSON to the main queue
ForeignPublish ==
    /\ Admit
    /\ mainQueue' = Append(mainQueue,
           [content |-> NotJson, headers |-> NoHeaders,
            fails |-> 0, retry |-> FALSE, count |-> 0])
    /\ UNCHANGED <<storeVars, cache, unacked, dlq, pendingPub, calls, faults,
                   succeeded, commits, processVars>>

\* a producer that sets message properties (an operator replaying a message,
\* another service) publishes body b with headers h to the main queue
ReplayPublish(b, h) ==
    /\ Admit
    /\ mainQueue' = Append(mainQueue,
           [content |-> b, headers |-> h, fails |-> 0, retry |-> FALSE, count |-> 0])
    /\ UNCHANGED <<storeVars, cache, unacked, dlq, pendingPub, calls, faults,
                   succeeded, commits, processVars>>

\* at-least-once delivery: the acknowledgement of a handled delivery is lost
\* and the broker delivers the same message (same body, same headers) again
Redeliver(w) ==
    /\ w \in Workers
    /\ calls[w].pc = "done" /\ calls[w].outcome = "ack"
    /\ Admit
    /\ mainQueue' = Append(mainQueue,
           [content |-> JSONstringify(ObjectMessage(calls[w].key, calls[w].id)),
            headers |-> NoHeaders, fails |-> 0, retry |-> FALSE, count |-> 0])
    /\ Set(w, Idle)
    /\ UNCHANGED <<storeVars, cache, unacked, dlq, pendingPub, faults, succeeded, commits, processVars>>

\* ----------------------------------------------------------- updateStatus
IdText(id) == IF id = UndefinedId THEN Undefined ELSE ToString(id)

StartUpdate(c, id, status, k) ==
    /\ c \in ApiCallers
    /\ calls[c].op = "idle"
    /\ Admit
    /\ Set(c, [Idle EXCEPT !.op = "update", !.pc = "check", !.key = k,
                           !.id = id, !.status = status,
                           !.afterSuccess = (<<"update", k>> \in succeeded)])
    /\ UNCHANGED <<storeVars, cache, queueVars, faults, succeeded, commits, processVars>>

\* updateStatus without the idempotency test
UpdateCheck_NoGuard(c) ==
    /\ calls[c].op = "update" /\ calls[c].pc = "check"
    /\ Set(c, [calls[c] EXCEPT !.pc = "find"])
    /\ UNCHANGED <<queueVars, succeeded, commits>>
    /\ UNCHANGED <<storeVars, cache, started, faults, processVars>>

\* const existing = await redisClient.get(idempotencyRedisKey)
UpdateCheck(c) ==
    /\ calls[c].op = "update" /\ calls[c].pc = "check"
    /\ IF Exists(cache, IdemKey(Namespace("update"), calls[c].key))
       THEN EndCall(c, calls[c], Err("ConflictError", <<Duplicate>>))
       ELSE /\ Set(c, [calls[c] EXCEPT !.pc = "find"])
            /\ UNCHANGED <<queueVars, succeeded, commits>>
    /\ UNCHANGED <<storeVars, cache, started, faults, processVars>>

\* the status test that turns away REJECTED requests only
NotPending_RejectedOnly(row) == row.status = "REJECTED"

\* existingRequest.status !== "PENDING"
NotPending(row) == row.status # "PENDING"

\* updateStatus writing its idempotency record ahead of the transaction
UpdateFind_RecordsFirst(c) ==
    /\ calls[c].op = "update" /\ calls[c].pc = "find"
    /\ LET existingRequest == findById(calls[c].id)
           r == [calls[c] EXCEPT !.existing = existingRequest]
       IN  IF existingRequest = NoRow
           THEN /\ EndCall(c, r, Err("Error",
                    <<"Leave request with ID", IdText(r.id), "not found">>))
                /\ UNCHANGED cache
           ELSE IF NotPending(existingRequest)
           THEN /\ EndCall(c, r, Err("BadRequestError",
                    <<"Cannot update leave request status from",
                      existingRequest.status, "to", r.status,
                      "Only PENDING requests can be updated.">>))
                /\ UNCHANGED cache
           ELSE /\ cache' = SetEx(cache, IdemKey(Namespace("update"), r.key),
                                  [leaveRequestId |-> r.id, status |-> r.status])
                /\ Set(c, [r EXCEPT !.pc = "txn"])
                /\ UNCHANGED <<queueVars, succeeded, commits>>
    /\ UNCHANGED <<storeVars, started, faults, processVars>>

\* const existingRequest = await this.leaveRepo.findById(id), then the
\* existence and status validation
UpdateFind(c) ==
    /\ calls[c].op = "update" /\ calls[c].pc = "find"
    /\ LET existingRequest == findById(calls[c].id)
           r == [calls[c] EXCEPT !.existing = existingRequest]
       IN  IF existingRequest = NoRow
           THEN EndCall(c, r, Err("Error",
                    <<"Leave request with ID", IdText(r.id), "not found">>))
           ELSE IF NotPending(existingRequest)
           THEN EndCall(c, r, Err("BadRequestError",
                    <<"Cannot update leave request status from",
                      existingRequest.status, "to", r.status,
                      "Only PENDING requests can be updated.">>))
           ELSE /\ Set(c, [r EXCEPT !.pc = "txn"])
                /\ UNCHANGED <<queueVars, succeeded, commits>>
    /\ UNCHANGED <<storeVars, cache, started, faults, processVars>>

\* leaveRepo.findById rejects: the store is unavailable
UpdateFindFail(c) ==
    /\ calls[c].op = "update" /\ calls[c].pc = "find"
    /\ faults < MaxFaults
    /\ faults' = faults + 1
    /\ UNCHANGED processVars
    /\ EndCall(c, calls[c], Err("QueryFailedError", <<"Database error">>))
    /\ UNCHANGED <<storeVars, cache, started>>

\* updateStatus recording its key before the test of the transaction's result
UpdateTxn_RecordsNull(c) ==
    /\ calls[c].op = "update" /\ calls[c].pc = "txn"
    /\ LET id == calls[c].id
           r == [calls[c] EXCEPT !.txn = @ + 1]
       IN  IF id \in DOMAIN leaves
           THEN /\ leaves' = [leaves EXCEPT ![id].status = calls[c].status]
                /\ Set(c, [r EXCEPT !.pc = "record",
                                    !.row = [leaves[id] EXCEPT !.status = calls[c].status]])
                /\ UNCHANGED <<cache, queueVars, succeeded, commits>>
           ELSE /\ UNCHANGED leaves
                /\ cache' = SetEx(cache, IdemKey(Namespace("update"), calls[c].key),
                                  [leaveRequestId |-> id, status |-> calls[c].status])
                /\ EndCall(c, [r EXCEPT !.records = @ + 1], ReturnNull)
    /\ UNCHANGED <<employees, departments, nextLeaveId, started, faults, processVars>>

\* LeaveRequestRepository.updateStatus inside the transaction:
\* repo.update({ id }, { status }) followed by findById(id)
UpdateTxn(c) ==
    /\ calls[c].op = "update" /\ calls[c].pc = "txn"
    /\ LET id == calls[c].id
           r == [calls[c] EXCEPT !.txn = @ + 1]
       IN  IF id \in DOMAIN leaves
           THEN /\ leaves' = [leaves EXCEPT ![id].status = calls[c].status]
                /\ Set(c, [r EXCEPT !.pc = "record",
                                    !.row = [leaves[id] EXCEPT !.status = calls[c].status]])
                /\ UNCHANGED <<queueVars, succeeded, commits>>
           ELSE /\ UNCHANGED leaves
                /\ EndCall(c, r, ReturnNull)
    /\ UNCHANGED <<employees, departments, nextLeaveId, cache, started, faults, processVars>>

\* await redisClient.setEx(idempotencyRedisKey, IDEMPOTENCY_TTL, ...)
UpdateRecord(c) ==
    /\ calls[c].op = "update" /\ calls[c].pc = "record"
    /\ cache' = SetEx(cache, IdemKey(Namespace("update"), calls[c].key),
                      [leaveRequestId |-> calls[c].row.id, status |-> calls[c].status])
    /\ Set(c, [calls[c] EXCEPT !.pc = "employee", !.records = @ + 1])
    /\ UNCHANGED <<storeVars, queueVars, started, faults, succeeded, commits, processVars>>

\* const employee = await this.employeeRepo.getEmployeeById(updated.employeeId)
UpdateEmployeeLookup(c) ==
    /\ calls[c].op = "update" /\ calls[c].pc = "employee"
    /\ LET employee == getEmployeeById(calls[c].row.employeeId)
           r == [calls[c] EXCEPT !.employee = employee]
       IN  IF employee.departmentId # Null
           THEN /\ Set(c, [r EXCEPT !.pc = "keys"])
                /\ UNCHANGED <<queueVars, succeeded, commits>>
           ELSE EndCall(c, r, Ok)
    /\ UNCHANGED <<storeVars, cache, started, faults, processVars>>

\* invalidateDepartmentEmployeeCaches: redisClient.keys(...)
UpdateKeys(c) ==
    /\ calls[c].op = "update" /\ calls[c].pc = "keys"
    /\ LET keys == KeysMatching(cache, calls[c].employee.departmentId)
           r == [calls[c] EXCEPT !.keys = keys]
       IN  IF keys # {}
           THEN /\ Set(c, [r EXCEPT !.pc = "del"])
                /\ UNCHANGED <<queueVars, succeeded, commits>>
           ELSE EndCall(c, r, Ok)
    /\ UNCHANGED <<storeVars, cache, started, faults, processVars>>

\* invalidateDepartmentEmployeeCaches: redisClient.del(keys)
UpdateDel(c) ==
    /\ calls[c].op = "update" /\ calls[c].pc = "del"
    /\ cache' = Del(cache, calls[c].keys)
    /\ EndCall(c, [calls[c] EXCEPT !.dels = @ + 1], Ok)
    /\ UNCHANGED <<storeVars, started, faults, processVars>>

\* ----------------------------------------------------- deleteLeaveRequest
StartDelete(c, id, k) ==
    /\ c \in ApiCallers
    /\ calls[c].op = "idle"
    /\ Admit
    /\ Set(c, [Idle EXCEPT !.op = "delete", !.pc = "check", !.key = k, !.id = id,
                           !.afterSuccess = (<<"delete", k>> \in succeeded)])
    /\ UNCHANGED <<storeVars, cache, queueVars, faults, succeeded, commits, processVars>>

\* const existing = await redisClient.get(idempotencyRedisKey)
DeleteCheck(c) ==
    /\ calls[c].op = "delete" /\ calls[c].pc = "check"
    /\ IF Exists(cache, IdemKey(Namespace("delete"), calls[c].key))
       THEN EndCall(c, calls[c], Err("Error", <<Duplicate>>))
       ELSE /\ Set(c, [calls[c] EXCEPT !.pc = "find"])
            /\ UNCHANGED <<queueVars, succeeded, commits>>
    /\ UNCHANGED <<storeVars, cache, started, faults, processVars>>

\* const existingRequest = await this.leaveRepo.findById(id)
DeleteFind(c) ==
    /\ calls[c].op = "delete" /\ calls[c].pc = "find"
    /\ LET existingRequest == findById(calls[c].id)
       IN  IF existingRequest = NoRow
           THEN EndCall(c, calls[c], Err("Error",
                    <<"Leave request with ID", IdText(calls[c].id), "not found">>))
           ELSE /\ Set(c, [calls[c] EXCEPT !.pc = "txn", !.existing = existingRequest])
                /\ UNCHANGED <<queueVars, succeeded, commits>>
    /\ UNCHANGED <<storeVars, cache, started, faults, processVars>>

\* a delete transaction that commits without removing the row
DeleteTxn_KeepsRow(c) ==
    /\ calls[c].op = "delete" /\ calls[c].pc = "txn"
    /\ Set(c, [calls[c] EXCEPT !.pc = "record", !.txn = @ + 1])
    /\ UNCHANGED <<storeVars, cache, queueVars, started, faults, succeeded, commits, processVars>>

\* the transaction: employeeId = existingRequest.employeeId; deleteRequest(id)
DeleteTxn(c) ==
    /\ calls[c].op = "delete" /\ calls[c].pc = "txn"
    /\ leaves' = [i \in DOMAIN leaves \ {calls[c].id} |-> leaves[i]]
    /\ Set(c, [calls[c] EXCEPT !.pc = "record", !.txn = @ + 1])
    /\ UNCHANGED <<employees, departments, nextLeaveId, cache, queueVars,
                   started, faults, succeeded, commits, processVars>>

\* await redisClient.setEx(idempotencyRedisKey, IDEMPOTENCY_TTL, ...)
DeleteRecord(c) ==
    /\ calls[c].op = "delete" /\ calls[c].pc = "record"
    /\ cache' = SetEx(cache, IdemKey(Namespace("delete"), calls[c].key),
                      [leaveRequestId |-> calls[c].id])
    /\ LET r == [calls[c] EXCEPT !.records = @ + 1]
       IN  IF r.existing.employeeId # Null
           THEN /\ Set(c, [r EXCEPT !.pc = "employee"])
                /\ UNCHANGED <<queueVars, succeeded, commits>>
           ELSE EndCall(c, r, Ok)
    /\ UNCHANGED <<storeVars, started, faults, processVars>>

\* const employee = await this.employeeRepo.getEmployeeById(employeeId)
DeleteEmployeeLookup(c) ==
    /\ calls[c].op = "delete" /\ calls[c].pc = "employee"
    /\ LET employee == getEmployeeById(calls[c].existing.employeeId)
           r == [calls[c] EXCEPT !.employee = employee]
       IN  IF employee.departmentId # Null
           THEN /\ Set(c, [r EXCEPT !.pc = "keys"])
                /\ UNCHANGED <<queueVars, succeeded, commits>>
           ELSE EndCall(c, r, Ok)
    /\ UNCHANGED <<storeVars, cache, started, faults, processVars>>

\* invalidateDepartmentEmployeeCaches: redisClient.keys(...)
DeleteKeys(c) ==
    /\ calls[c].op = "delete" /\ calls[c].pc = "keys"
    /\ LET keys == KeysMatching(cache, calls[c].employee.departmentId)
           r == [calls[c] EXCEPT !.keys = keys]
       IN  IF keys # {}
           THEN /\ Set(c, [r EXCEPT !.pc = "del"])
                /\ UNCHANGED <<queueVars, succeeded, commits>>
           ELSE EndCall(c, r, Ok)
    /\ UNCHANGED <<storeVars, cache, started, faults, processVars>>

\* invalidateDepartmentEmployeeCaches: redisClient.del(keys)
DeleteDel(c) ==
    /\ calls[c].op = "delete" /\ calls[c].pc = "del"
    /\ cache' = Del(cache, calls[c].keys)
    /\ EndCall(c, [calls[c] EXCEPT !.dels = @ + 1], Ok)
    /\ UNCHANGED <<storeVars, started, faults, processVars>>

\* --------------------------------------------------------- createEmployee
\* /^[^\s@]+@[^\s@]+\.[^\s@]+$/ on the addresses of the model
emailRegexTest(email) == email \in {"a@x.io", "b@x.io"}

\* EmployeeRepository.getEmployeeByEmail
getEmployeeByEmail(email) ==
    IF \E i \in 1..Len(employees) : employees[i].email = email
    THEN employees[CHOOSE i \in 1..Len(employees) : employees[i].email = email]
    ELSE NoEmployee

\* PrimaryGeneratedColumn("uuid"): an id no row has had
NewEmployeeId == "e" \o ToString(Len(employees) + 1)

StartCreateEmployee(c, info, k) ==
    /\ c \in ApiCallers
    /\ calls[c].op = "idle"
    /\ Admit
    /\ Set(c, [Idle EXCEPT !.op = "employee", !.pc = "check", !.key = k, !.info = info,
                           !.afterSuccess = (<<"employee", k>> \in succeeded),
                           !.afterRecord = Exists(cache, IdemKey(Namespace("employee"), k)),
                           !.prior = Prior("employee", k)])
    /\ UNCHANGED <<storeVars, cache, queueVars, faults, succeeded, commits, processVars>>

\* const existing = await redisClient.get(idempotencyRedisKey); when the key
\* is fresh an empty departmentId skips the department lookup
EmployeeCheck(c) ==
    /\ calls[c].op = "employee" /\ calls[c].pc = "check"
    /\ IF Exists(cache, IdemKey(Namespace("employee"), calls[c].key))
       THEN EndCall(c, calls[c], Err("ConflictError", <<Duplicate>>))
       ELSE /\ Set(c, [calls[c] EXCEPT !.pc = "department"])
            /\ UNCHANGED <<queueVars, succeeded, commits>>
    /\ UNCHANGED <<storeVars, cache, started, faults, processVars>>

\* createEmployee without the department lookup
EmployeeDepartment_NoLookup(c) ==
    /\ calls[c].op = "employee" /\ calls[c].pc = "department"
    /\ IF ~emailRegexTest(calls[c].info.email)
       THEN EndCall(c, calls[c], Err("Error", <<"Invalid email format">>))
       ELSE /\ Set(c, [calls[c] EXCEPT !.pc = "email"])
            /\ UNCHANGED <<queueVars, succeeded, commits>>
    /\ UNCHANGED <<storeVars, cache, started, faults, processVars>>

\* await this.departmentRepo.getDepartmentById(...), then the e-mail format test
EmployeeDepartment(c) ==
    /\ calls[c].op = "employee" /\ calls[c].pc = "department"
    /\ LET info == calls[c].info
       IN  IF info.departmentId # Null /\ info.departmentId \notin departments
           THEN EndCall(c, calls[c], Err("NotFoundError",
                    <<"Department with ID", info.departmentId, "not found">>))
           ELSE IF ~emailRegexTest(info.email)
           THEN EndCall(c, calls[c], Err("Error", <<"Invalid email format">>))
           ELSE /\ Set(c, [calls[c] EXCEPT !.pc = "email"])
                /\ UNCHANGED <<queueVars, succeeded, commits>>
    /\ UNCHANGED <<storeVars, cache, started, faults, processVars>>

\* const existingEmployee = await this.employeeRepo.getEmployeeByEmail(...)
EmployeeEmail(c) ==
    /\ calls[c].op = "employee" /\ calls[c].pc = "email"
    /\ IF getEmployeeByEmail(calls[c].info.email) # NoEmployee
       THEN EndCall(c, calls[c], Err("ConflictError",
                <<"Employee with email", calls[c].info.email, "already exists">>))
       ELSE /\ Set(c, [calls[c] EXCEPT !.pc = "txn"])
            /\ UNCHANGED <<queueVars, succeeded, commits>>
    /\ UNCHANGED <<storeVars, cache, started, faults, processVars>>

\* the transaction: EmployeeRepository.createEmployee; the unique index on
\* email rejects an insert that lost the race with another one
EmployeeTxn(c) ==
    /\ calls[c].op = "employee" /\ calls[c].pc = "txn"
    /\ LET info == calls[c].info
           created == [id |-> NewEmployeeId, email |-> info.email,
                       departmentId |-> info.departmentId]
           r == [calls[c] EXCEPT !.txn = @ + 1]
       IN  IF getEmployeeByEmail(info.email) # NoEmployee
           THEN /\ UNCHANGED employees
                /\ EndCall(c, r, Err("QueryFailedError", <<"Duplicate entry">>))
           ELSE /\ employees' = Append(employees, created)
                /\ Set(c, [r EXCEPT !.pc = "record", !.employee = created])
                /\ UNCHANGED <<queueVars, succeeded, commits>>
    /\ UNCHANGED <<departments, leaves, nextLeaveId, cache, started, faults, processVars>>

\* await redisClient.setEx(idempotencyRedisKey, IDEMPOTENCY_TTL, ...)
EmployeeRecord(c) ==
    /\ calls[c].op = "employee" /\ calls[c].pc = "record"
    /\ cache' = SetEx(cache, IdemKey(Namespace("employee"), calls[c].key),
                      [employeeId |-> calls[c].employee.id])
    /\ LET r == [calls[c] EXCEPT !.records = @ + 1]
       IN  IF r.employee.departmentId # Null
           THEN /\ Set(c, [r EXCEPT !.pc = "keys"])
                /\ UNCHANGED <<queueVars, succeeded, commits>>
           ELSE EndCall(c, r, Ok)
    /\ UNCHANGED <<storeVars, started, faults, processVars>>

\* invalidateDepartmentEmployeeCaches: redisClient.keys(...)
EmployeeKeys(c) ==
    /\ calls[c].op = "employee" /\ calls[c].pc = "keys"
    /\ LET keys == KeysMatching(cache, calls[c].employee.departmentId)
           r == [calls[c] EXCEPT !.keys = keys]
       IN  IF keys # {}
           THEN /\ Set(c, [r EXCEPT !.pc = "del"])
                /\ UNCHANGED <<queueVars, succeeded, commits>>
           ELSE EndCall(c, r, Ok)
    /\ UNCHANGED <<storeVars, cache, started, faults, processVars>>

\* an invalidation that also drops the cached employee list
EmployeeDel_AlsoList(c) ==
    /\ calls[c].op = "employee" /\ calls[c].pc = "del"
    /\ cache' = Del(cache, calls[c].keys \cup
                        {k \in DOMAIN cache : k.kind = "employees:all"})
    /\ EndCall(c, [calls[c] EXCEPT !.dels = @ + 1], Ok)
    /\ UNCHANGED <<storeVars, started, faults, processVars>>

\* invalidateDepartmentEmployeeCaches: redisClient.del(keys)
EmployeeDel(c) ==
    /\ calls[c].op = "employee" /\ calls[c].pc = "del"
    /\ cache' = Del(cache, calls[c].keys)
    /\ EndCall(c, [calls[c] EXCEPT !.dels = @ + 1], Ok)
    /\ UNCHANGED <<storeVars, started, faults, processVars>>

\* ------------------------------------------------------- createDepartment
\* the cache key "departments:all" of the department list
DepartmentsAllKey ==
    [kind |-> "departments:all", ns |-> Null, key |-> Null,
     dept |-> Null, variant |-> Null, page |-> 0, limit |-> 0]

\* PrimaryGeneratedColumn("uuid"): an id no department has had
NewDepartmentId == "d" \o ToString(Cardinality(departments) + 1)

StartCreateDepartment(c, k) ==
    /\ c \in ApiCallers
    /\ calls[c].op = "idle"
    /\ Admit
    /\ Set(c, [Idle EXCEPT !.op = "department", !.pc = "check", !.key = k,
                           !.afterSuccess = (<<"department", k>> \in succeeded),
                           !.afterRecord = Exists(cache, IdemKey(Namespace("department"), k)),
                           !.prior = Prior("department", k)])
    /\ UNCHANGED <<storeVars, cache, queueVars, faults, succeeded, commits, processVars>>

\* const existing = await redisClient.get(idempotencyRedisKey); the duplicate
\* is reported with a plain Error
DepartmentCheck(c) ==
    /\ calls[c].op = "department" /\ calls[c].pc = "check"
    /\ IF Exists(cache, IdemKey(Namespace("department"), calls[c].key))
       THEN EndCall(c, calls[c], Err("Error", <<Duplicate>>))
       ELSE /\ Set(c, [calls[c] EXCEPT !.pc = "txn"])
            /\ UNCHANGED <<queueVars, succeeded, commits>>
    /\ UNCHANGED <<storeVars, cache, started, faults, processVars>>

\* the transaction: DepartmentRepository.createDepartment(name)
DepartmentTxn(c) ==
    /\ calls[c].op = "department" /\ calls[c].pc = "txn"
    /\ departments' = departments \cup {NewDepartmentId}
    /\ Set(c, [calls[c] EXCEPT !.pc = "record", !.dept = NewDepartmentId, !.txn = @ + 1])
    /\ UNCHANGED <<employees, leaves, nextLeaveId, cache, queueVars, started, faults,
                   succeeded, commits, processVars>>

\* a failed department transaction that deletes departments:all all the same
DepartmentTxnFail_Invalidates(c) ==
    /\ calls[c].op = "department" /\ calls[c].pc = "txn"
    /\ faults < MaxFaults
    /\ faults' = faults + 1
    /\ UNCHANGED processVars
    /\ cache' = Del(cache, {DepartmentsAllKey})
    /\ EndCall(c, [calls[c] EXCEPT !.dels = @ + 1],
               Err("QueryFailedError", <<"Database error">>))
    /\ UNCHANGED <<storeVars, started>>

\* the transaction rejects: the store is unavailable or refuses the insert
DepartmentTxnFail(c) ==
    /\ calls[c].op = "department" /\ calls[c].pc = "txn"
    /\ faults < MaxFaults
    /\ faults' = faults + 1
    /\ UNCHANGED processVars
    /\ EndCall(c, calls[c], Err("QueryFailedError", <<"Database error">>))
    /\ UNCHANGED <<storeVars, cache, started>>

\* await redisClient.setEx(idempotencyRedisKey, IDEMPOTENCY_TTL, ...)
DepartmentRecord(c) ==
    /\ calls[c].op = "department" /\ calls[c].pc = "record"
    /\ cache' = SetEx(cache, IdemKey(Namespace("department"), calls[c].key),
                      [departmentId |-> calls[c].dept])
    /\ Set(c, [calls[c] EXCEPT !.pc = "del", !.records = @ + 1])
    /\ UNCHANGED <<storeVars, queueVars, started, faults, succeeded, commits, processVars>>

\* await redisClient.del("departments:all")
DepartmentDel(c) ==
    /\ calls[c].op = "department" /\ calls[c].pc = "del"
    /\ cache' = Del(cache, {DepartmentsAllKey})
    /\ EndCall(c, [calls[c] EXCEPT !.dels = @ + 1], Ok)
    /\ UNCHANGED <<storeVars, started, faults, processVars>>

\* ------------------------------------------------------------ errorHandler
\* statusCode of the AppError subclasses
StatusCode(kind) ==
    CASE kind = "ConflictError"   -> 409
      [] kind = "NotFoundError"   -> 404
      [] kind = "BadRequestError" -> 400
      [] OTHER                    -> 500

\* err instanceof AppError
IsAppError(kind) == kind \in {"ConflictError", "NotFoundError", "BadRequestError"}

\* the response errorHandler sends for a thrown error
errorHandler(err) ==
    IF IsAppError(err.kind)
    THEN [message |-> err.msg, statusCode |-> StatusCode(err.kind)]
    ELSE IF err.kind = "QueryFailedError"
    THEN [message |-> err.msg, statusCode |-> 400]
    ELSE [message |-> <<"Internal Server Error">>, statusCode |-> 500]

\* ------------------------------------------------- paginated list reads
\* allEmployees.filter((emp) => emp.departmentId === departmentId)
Filtered(d) == SelectSeq(employees, LAMBDA e : e.departmentId = d)

\* a slice that always starts at the first element
Slice_FromStart(seq, page, limit) ==
    SubSeq(seq, 1, IF limit < Len(seq) THEN limit ELSE Len(seq))

\* filtered.slice(start, start + limit) with start = (page - 1) * limit
Slice(seq, page, limit) ==
    LET start == (page - 1) * limit
        stop  == IF start + limit < Len(seq) THEN start + limit ELSE Len(seq)
    IN  SubSeq(seq, start + 1, stop)

\* LeaveRequestRepository.findByEmployee
findByEmployee(employeeId) ==
    {leaves[i] : i \in {j \in DOMAIN leaves : leaves[j].employeeId = employeeId}}

\* listEmployeesInDepartment (variant "employees") or listEmployeesWithLeaves
StartRead(c, variant, d, page, limit) ==
    /\ c \in ApiCallers
    /\ calls[c].op = "idle"
    /\ Admit
    /\ Set(c, [Idle EXCEPT !.op = "read", !.variant = variant, !.dept = d,
                           !.page = page, !.limit = limit,
                           !.pc = IF variant = "employees" THEN "get" ELSE "department"])
    /\ UNCHANGED <<storeVars, cache, queueVars, faults, succeeded, commits, processVars>>

\* default parameters: page = 1, limit = 10
DefaultPage  == 1
DefaultLimit == 10

\* the i-th positional argument, or the parameter's default when it is omitted
Arg(args, i, default) == IF i <= Len(args) THEN args[i] ELSE default

\* listEmployeesInDepartment(departmentId, ...args); info keeps the arguments
\* the caller passed
listEmployeesInDepartment(c, d, args) ==
    /\ c \in ApiCallers
    /\ calls[c].op = "idle"
    /\ Admit
    /\ Set(c, [Idle EXCEPT !.op = "read", !.variant = "employees", !.dept = d,
                           !.info = args,
                           !.page = Arg(args, 1, DefaultPage),
                           !.limit = Arg(args, 2, DefaultLimit),
                           !.pc = "get"])
    /\ UNCHANGED <<storeVars, cache, queueVars, faults, succeeded, commits, processVars>>

\* listEmployeesWithLeaves: await this.departmentRepo.getDepartmentById(...)
ReadDepartment(c) ==
    /\ calls[c].op = "read" /\ calls[c].pc = "department"
    /\ IF calls[c].dept \notin departments
       THEN EndCall(c, calls[c], Err("NotFoundError",
                <<"Department with ID", calls[c].dept, "not found">>))
       ELSE /\ Set(c, [calls[c] EXCEPT !.pc = "get"])
            /\ UNCHANGED <<queueVars, succeeded, commits>>
    /\ UNCHANGED <<storeVars, cache, started, faults, processVars>>

\* const cached = await redisClient.get(cacheKey); if (cached) return ...
ReadGet(c) ==
    /\ calls[c].op = "read" /\ calls[c].pc = "get"
    /\ LET r == calls[c]
           cacheKey == PageKey(r.dept, r.variant, r.page, r.limit)
       IN  IF Exists(cache, cacheKey)
           THEN EndCall(c, [r EXCEPT !.response = cache[cacheKey]], Ok)
           ELSE /\ Set(c, [r EXCEPT !.pc = "load"])
                /\ UNCHANGED <<queueVars, succeeded, commits>>
    /\ UNCHANGED <<storeVars, cache, started, faults, processVars>>

\* const allEmployees = await this.employeeRepo.getAllEmployees(), filter, slice
ReadLoad(c) ==
    /\ calls[c].op = "read" /\ calls[c].pc = "load"
    /\ LET r == calls[c]
           filtered == Filtered(r.dept)
           paginated == Slice(filtered, r.page, r.limit)
           data == [i \in 1..Len(paginated) |->
                       [id |-> paginated[i].id, email |-> paginated[i].email,
                        departmentId |-> paginated[i].departmentId,
                        leaveRequests |-> {}]]
       IN  Set(c, [r EXCEPT !.pc = IF r.variant = "employees" \/ data = <<>>
                                   THEN "set" ELSE "leaves",
                            !.response = [data |-> data, count |-> Len(filtered),
                                          page |-> r.page, limit |-> r.limit]])
    /\ UNCHANGED <<storeVars, cache, queueVars, started, faults, succeeded, commits, processVars>>

\* listEmployeesWithLeaves: one findByEmployee of the Promise.all resolves
ReadLeaves(c, i) ==
    /\ calls[c].op = "read" /\ calls[c].pc = "leaves"
    /\ i \in 1..Len(calls[c].response.data)
    /\ i \notin calls[c].fetched
    /\ LET r == calls[c]
           fetched == r.fetched \cup {i}
           found == findByEmployee(r.response.data[i].id)
       IN  Set(c, [r EXCEPT !.fetched = fetched,
                            !.response.data[i].leaveRequests = found,
                            !.pc = IF fetched = 1..Len(r.response.data)
                                   THEN "set" ELSE "leaves"])
    /\ UNCHANGED <<storeVars, cache, queueVars, started, faults, succeeded, commits, processVars>>

\* await redisClient.setEx(cacheKey, this.CACHE_TTL, JSON.stringify(response))
ReadSet(c) ==
    /\ calls[c].op = "read" /\ calls[c].pc = "set"
    /\ LET r == calls[c]
       IN  /\ cache' = SetEx(cache, PageKey(r.dept, r.variant, r.page, r.limit), r.response)
           /\ EndCall(c, r, Ok)
    /\ UNCHANGED <<storeVars, started, faults, processVars>>

\* sendMessageToQueue after `await getChannel()`: stringify and enqueue.
\* No options are passed to channel.sendToQueue, so no header is set.
sendMessageToQueue(p) ==
    /\ p \in pendingPub
    /\ pendingPub' = pendingPub \ {p}
    /\ mainQueue' = Append(mainQueue,
           [content |-> JSONstringify(p.message), headers |-> NoHeaders,
            fails |-> p.fails, retry |-> p.retry, count |-> p.count])
    /\ UNCHANGED <<storeVars, cache, unacked, dlq, calls, started, faults, succeeded, commits, processVars>>

\* the caller has observed the settled promise; the handler slot is free
Release(c) ==
    /\ calls[c].pc = "done"
    /\ Set(c, Idle)
    /\ UNCHANGED <<storeVars, cache, queueVars, started, faults, succeeded, commits, processVars>>

\* ids a caller can name: those generated so far and one that names no row
LeaveIdArgs == (1..(nextLeaveId - 1)) \cup {MissingLeaveId}

Payloads ==
    [employeeId : {"e1", MissingEmployee}, startDate : StartDates, endDate : EndDates]

\* the steps that follow the first await of each operation
CreateSteps(c) ==
    \/ CreateCheck(c)
    \/ CreateEmployeeLookup(c)
    \/ CreateTxn(c)
    \/ CreateTxnFail(c)
    \/ CreateRecord(c)
    \/ CreateKeys(c)
    \/ CreateDel(c)

UpdateSteps(c) ==
    \/ UpdateCheck(c)
    \/ UpdateFind(c)
    \/ UpdateFindFail(c)
    \/ UpdateTxn(c)
    \/ UpdateRecord(c)
    \/ UpdateEmployeeLookup(c)
    \/ UpdateKeys(c)
    \/ UpdateDel(c)

DeleteSteps(c) ==
    \/ DeleteCheck(c)
    \/ DeleteFind(c)
    \/ DeleteTxn(c)
    \/ DeleteRecord(c)
    \/ DeleteEmployeeLookup(c)
    \/ DeleteKeys(c)
    \/ DeleteDel(c)

EmployeeSteps(c) ==
    \/ EmployeeCheck(c)
    \/ EmployeeDepartment(c)
    \/ EmployeeEmail(c)
    \/ EmployeeTxn(c)
    \/ EmployeeRecord(c)
    \/ EmployeeKeys(c)
    \/ EmployeeDel(c)

DepartmentSteps(c) ==
    \/ DepartmentCheck(c)
    \/ DepartmentTxn(c)
    \/ DepartmentRecord(c)
    \/ DepartmentDel(c)

ReadSteps(c) ==
    \/ ReadDepartment(c)
    \/ ReadGet(c)
    \/ ReadLoad(c)
    \/ \E i \in 1..2 : ReadLeaves(c, i)
    \/ ReadSet(c)

\* The leave-request service under concurrent API requests.
Next ==
    \/ \E c \in ApiCallers, payload \in Payloads, k \in IdemKeys : StartCreate(c, payload, k)
    \/ \E c \in ApiCallers, id \in LeaveIdArgs, st \in Statuses, k \in IdemKeys :
            StartUpdate(c, id, st, k)
    \/ \E c \in ApiCallers, id \in LeaveIdArgs, k \in IdemKeys : StartDelete(c, id, k)
    \/ \E c \in ApiCallers : CreateSteps(c) \/ UpdateSteps(c) \/ DeleteSteps(c)
    \/ \E p \in pendingPub : sendMessageToQueue(p)
    \/ \E c \in ApiCallers : Release(c)

Spec == Init /\ [][Next]_vars

\* The mutations next to the paginated reads whose pages they invalidate.
LongLeaves == [employeeId : {"e1"}, startDate : StartDates, endDate : {3 * Day}]
EmployeeInfos == [email : {"b@x.io"}, departmentId : {"d1", MissingDept}]

CacheNext ==
    \/ \E c \in ApiCallers, v \in Variants, d \in {"d1"}, page \in Pages, limit \in Limits :
            StartRead(c, v, d, page, limit)
    \/ \E c \in ApiCallers, info \in EmployeeInfos : StartCreateEmployee(c, info, "k1")
    \/ \E c \in ApiCallers, payload \in LongLeaves : StartCreate(c, payload, "k1")
    \/ \E c \in ApiCallers, id \in 1..(nextLeaveId - 1) : StartUpdate(c, id, "REJECTED", "k1")
    \/ \E c \in ApiCallers, id \in 1..(nextLeaveId - 1) : StartDelete(c, id, "k1")
    \/ \E c \in ApiCallers : \/ CreateSteps(c) \/ UpdateSteps(c) \/ DeleteSteps(c)
                             \/ EmployeeSteps(c) \/ ReadSteps(c)
    \/ \E c \in ApiCallers : Release(c)

CacheSpec == Init /\ [][CacheNext]_vars

\* Paginated reads of a department, with and without explicit page and limit,
\* while employees are added.
PageArgs == {<<>>} \cup {<<page>> : page \in Pages}
                  \cup {<<page, limit>> : page \in Pages, limit \in Limits}

PageNext ==
    \/ \E c \in ApiCallers, d \in {"d1", "d2"}, args \in PageArgs :
            listEmployeesInDepartment(c, d, args)
    \/ \E c \in ApiCallers, info \in EmployeeInfos : StartCreateEmployee(c, info, "k1")
    \/ \E c \in ApiCallers : ReadGet(c) \/ ReadLoad(c) \/ ReadSet(c) \/ EmployeeSteps(c)
    \/ \E c \in ApiCallers : Release(c)

PageSpec == Init /\ [][PageNext]_vars

\* ----------------------------------------------------------- getConnection
\* everything but the broker connection
restVars == <<storeVars, cache, queueVars, calls, started, faults, succeeded, commits>>

\* if (!connectionPromise) connectionPromise = amqp.connect(...).then(...)
\* .catch(...); return connectionPromise
getConnection(c) ==
    /\ c \in ApiCallers
    /\ IF connectionPromise = NoPromise
       THEN /\ Len(connections) < MaxConnects
            /\ connections' = Append(connections, "pending")
            /\ connectionPromise' = Len(connections) + 1
            /\ returned' = [returned EXCEPT ![c] = Len(connections) + 1]
       ELSE /\ returned' = [returned EXCEPT ![c] = connectionPromise]
            /\ UNCHANGED <<connectionPromise, connections>>
    /\ UNCHANGED <<boot, requests, restVars>>

\* amqp.connect resolves: the then-callback registers the two listeners and
\* returns the connection
ConnectResolve(n) ==
    /\ n \in DOMAIN connections /\ connections[n] = "pending"
    /\ connections' = [connections EXCEPT ![n] = "open"]
    /\ UNCHANGED <<connectionPromise, returned, boot, requests, restVars>>

\* amqp.connect rejects: catch(error => { connectionPromise = null; throw error })
ConnectReject(n) ==
    /\ n \in DOMAIN connections /\ connections[n] = "pending"
    /\ connections' = [connections EXCEPT ![n] = "failed"]
    /\ connectionPromise' = NoPromise
    /\ UNCHANGED <<returned, boot, requests, restVars>>

\* connection.on("error", ...): the connection reports an error and starts
\* closing; its "close" event follows
OnError(n) ==
    /\ n \in DOMAIN connections /\ connections[n] = "open"
    /\ connections' = [connections EXCEPT ![n] = "closing"]
    /\ connectionPromise' = NoPromise
    /\ UNCHANGED <<returned, boot, requests, restVars>>

\* connection.on("close", ...)
OnClose(n) ==
    /\ n \in DOMAIN connections /\ connections[n] \in {"open", "closing"}
    /\ connections' = [connections EXCEPT ![n] = "closed"]
    /\ connectionPromise' = NoPromise
    /\ UNCHANGED <<returned, boot, requests, restVars>>

ConnNext ==
    \/ \E c \in ApiCallers : getConnection(c)
    \/ \E n \in 1..MaxConnects :
            ConnectResolve(n) \/ ConnectReject(n) \/ OnError(n) \/ OnClose(n)

ConnSpec == Init /\ [][ConnNext]_vars

\* ------------------------------------------------ initializeServices, startApp
\* order logs the services whose initialization was started, open the services
\* holding a client connection, closed the services closed by a cleanup
Outcomes == {"ok", "throws"}

\* await AppDataSource.initialize(); services.database = true / return false
BootDatabase(outcome) ==
    /\ boot.pc = "database"
    /\ boot' = IF outcome = "ok"
               THEN [boot EXCEPT !.order = Append(@, "database"),
                                 !.services.database = TRUE,
                                 !.open = @ \cup {"database"},
                                 !.pc = "redisConnect"]
               ELSE [boot EXCEPT !.order = Append(@, "database"),
                                 !.result = "false", !.pc = "returned"]
    /\ UNCHANGED <<connectionPromise, connections, returned, requests, restVars>>

\* await redisClient.connect()
BootRedisConnect(outcome) ==
    /\ boot.pc = "redisConnect"
    /\ boot' = IF outcome = "ok"
               THEN [boot EXCEPT !.order = Append(@, "redis"),
                                 !.open = @ \cup {"redis"}, !.pc = "redisPing"]
               ELSE [boot EXCEPT !.order = Append(@, "redis"), !.pc = "redisFailed"]
    /\ UNCHANGED <<connectionPromise, connections, returned, requests, restVars>>

\* const pingResponse = await redisClient.ping();
\* if (pingResponse !== "PONG") throw ...; services.redis = true
BootRedisPing(reply) ==
    /\ boot.pc = "redisPing"
    /\ boot' = IF reply = "PONG"
               THEN [boot EXCEPT !.services.redis = TRUE, !.pc = "rabbitmq"]
               ELSE [boot EXCEPT !.pc = "redisFailed"]
    /\ UNCHANGED <<connectionPromise, connections, returned, requests, restVars>>

\* the Redis catch block with its cleanup left out
BootRedisFailed_NoCleanup(outcome) ==
    /\ boot.pc = "redisFailed"
    /\ boot' = [boot EXCEPT !.result = "false", !.pc = "returned"]
    /\ UNCHANGED <<connectionPromise, connections, returned, requests, restVars>>

\* catch: if (services.database) await AppDataSource.destroy(); return false
BootRedisFailed(outcome) ==
    /\ boot.pc = "redisFailed"
    /\ boot' = IF ~boot.services.database
               THEN [boot EXCEPT !.result = "false", !.pc = "returned"]
               ELSE IF outcome = "ok"
               THEN [boot EXCEPT !.open = @ \ {"database"},
                                 !.closed = @ \cup {"database"},
                                 !.result = "false", !.pc = "returned"]
               ELSE [boot EXCEPT !.result = "threw", !.pc = "returned"]
    /\ UNCHANGED <<connectionPromise, connections, returned, requests, restVars>>

\* const channel = await getChannel(): getConnection() up to its return
BootGetConnection ==
    /\ boot.pc = "rabbitmq"
    /\ IF connectionPromise = NoPromise
       THEN /\ Len(connections) < MaxConnects
            /\ connections' = Append(connections, "pending")
            /\ connectionPromise' = Len(connections) + 1
            /\ boot' = [boot EXCEPT !.order = Append(@, "rabbitmq"),
                                    !.conn = Len(connections) + 1,
                                    !.pc = "createChannel"]
       ELSE /\ boot' = [boot EXCEPT !.order = Append(@, "rabbitmq"),
                                    !.conn = connectionPromise,
                                    !.pc = "createChannel"]
            /\ UNCHANGED <<connectionPromise, connections>>
    /\ UNCHANGED <<returned, requests, restVars>>

\* getChannel: the awaited connection settles, then connection.createChannel()
BootCreateChannel(outcome) ==
    /\ boot.pc = "createChannel"
    /\ connections[boot.conn] # "pending"
    /\ boot' = IF connections[boot.conn] = "open" /\ outcome = "ok"
               THEN [boot EXCEPT !.open = @ \cup {"rabbitmq"}, !.pc = "channelClose"]
               ELSE [boot EXCEPT !.open = IF connections[boot.conn] = "failed"
                                          THEN @ ELSE @ \cup {"rabbitmq"},
                                 !.pc = "rabbitFailed"]
    /\ UNCHANGED <<connectionPromise, connections, returned, requests, restVars>>

\* await channel.close(); services.rabbitmq = true;
\* return services.database && services.redis && services.rabbitmq
BootChannelClose(outcome) ==
    /\ boot.pc = "channelClose"
    /\ boot' = IF outcome = "ok"
               THEN [boot EXCEPT !.services.rabbitmq = TRUE,
                                 !.result = IF boot.services.database /\ boot.services.redis
                                            THEN "true" ELSE "false",
                                 !.pc = "returned"]
               ELSE [boot EXCEPT !.pc = "rabbitFailed"]
    /\ UNCHANGED <<connectionPromise, connections, returned, requests, restVars>>

\* catch: if (services.redis) await redisClient.quit()
BootRabbitFailed(outcome) ==
    /\ boot.pc = "rabbitFailed"
    /\ boot' = IF ~boot.services.redis
               THEN [boot EXCEPT !.pc = "rabbitFailedDestroy"]
               ELSE IF outcome = "ok"
               THEN [boot EXCEPT !.open = @ \ {"redis"}, !.closed = @ \cup {"redis"},
                                 !.pc = "rabbitFailedDestroy"]
               ELSE [boot EXCEPT !.result = "threw", !.pc = "returned"]
    /\ UNCHANGED <<connectionPromise, connections, returned, requests, restVars>>

\* catch: if (services.database) await AppDataSource.destroy(); return false
BootRabbitFailedDestroy(outcome) ==
    /\ boot.pc = "rabbitFailedDestroy"
    /\ boot' = IF ~boot.services.database
               THEN [boot EXCEPT !.result = "false", !.pc = "returned"]
               ELSE IF outcome = "ok"
               THEN [boot EXCEPT !.open = @ \ {"database"},
                                 !.closed = @ \cup {"database"},
                                 !.result = "false", !.pc = "returned"]
               ELSE [boot EXCEPT !.result = "threw", !.pc = "returned"]
    /\ UNCHANGED <<connectionPromise, connections, returned, requests, restVars>>

\* startApp: if (!servicesInitialized) process.exit(1); in the catch block
\* process.exit(1); otherwise app.listen(PORT, ...)
StartApp ==
    /\ boot.pc = "returned"
    /\ boot' = IF boot.result = "true"
               THEN [boot EXCEPT !.listening = TRUE, !.pc = "listening"]
               ELSE [boot EXCEPT !.pc = "exited"]
    /\ UNCHANGED <<connectionPromise, connections, returned, requests, restVars>>

\* what `await redisClient.ping()` gives: the reply, another reply, an exception
PingReplies == {"PONG", "LOADING", "throws"}

\* Startup, the broker connection it opens, and the first requests' use of
\* that connection once the server listens.
BootNext ==
    \/ \E outcome \in Outcomes :
            \/ BootDatabase(outcome) \/ BootRedisConnect(outcome)
            \/ BootRedisFailed(outcome) \/ BootCreateChannel(outcome)
            \/ BootChannelClose(outcome) \/ BootRabbitFailed(outcome)
            \/ BootRabbitFailedDestroy(outcome)
    \/ \E reply \in PingReplies : BootRedisPing(reply)
    \/ BootGetConnection
    \/ StartApp
    \/ \E n \in 1..MaxConnects :
            ConnectResolve(n) \/ ConnectReject(n) \/ OnError(n) \/ OnClose(n)
    \/ \E c \in ApiCallers : boot.listening /\ getConnection(c)

BootSpec == Init /\ [][BootNext]_vars

\* ------------------------------------------------------------- middlewares
\* the three POST routes; each runs @Middlewares(<validator>, idempotencyMiddleware)
Routes == {"leave-requests", "employees", "departments"}

\* the keys the route's Joi schema requires
Required(route) ==
    CASE route = "leave-requests" -> {"employeeId", "startDate", "endDate"}
      [] route = "employees" -> {"name", "email", "departmentId"}
      [] route = "departments" -> {"name"}

\* schema.validate(req.body, { abortEarly: false }).error
ValidateError(route, body) == ~(Required(route) \subseteq body)

\* a request arrives at a route: its first middleware is to be invoked
Receive(c, route, body, hasKey) ==
    /\ c \in ApiCallers
    /\ requests[c] = NoRequest
    /\ requests' = [requests EXCEPT ![c] =
            [NoRequest EXCEPT !.route = route, !.body = body, !.hasKey = hasKey,
                              !.todo = <<"validator">>]]
    /\ UNCHANGED <<connectionPromise, connections, returned, boot, restVars>>

\* the arguments of the next() calls of a middleware whose test has failed or
\* passed: if (error) { next(new BadRequestError(...)); } next();
NextCalls(failed) == IF failed THEN <<"error", "plain">> ELSE <<"plain">>

\* what each next() call invokes: the error handler for next(err), the
\* following handler of the route for next()
Invoked(args, following) ==
    [i \in 1..Len(args) |-> IF args[i] = "error" THEN "errorHandler" ELSE following]

\* leaveRequestCreateValidator, employeeCreateValidator, departmentCreateValidator
RunValidator(c) ==
    /\ requests[c].todo # <<>> /\ Head(requests[c].todo) = "validator"
    /\ LET q == requests[c]
           args == NextCalls(ValidateError(q.route, q.body))
       IN  requests' = [requests EXCEPT ![c] =
               [q EXCEPT !.nexts.validator = @ \o args,
                         !.todo = Invoked(args, "idempotency") \o Tail(@)]]
    /\ UNCHANGED <<connectionPromise, connections, returned, boot, restVars>>

\* idempotencyMiddleware: const key = req.header("Idempotency-Key"); if (!key) ...
RunIdempotency(c) ==
    /\ requests[c].todo # <<>> /\ Head(requests[c].todo) = "idempotency"
    /\ LET q == requests[c]
           args == NextCalls(~q.hasKey)
       IN  requests' = [requests EXCEPT ![c] =
               [q EXCEPT !.nexts.idempotency = @ \o args,
                         !.todo = Invoked(args, "controller") \o Tail(@)]]
    /\ UNCHANGED <<connectionPromise, connections, returned, boot, restVars>>

\* the controller method of the route is invoked
RunController(c) ==
    /\ requests[c].todo # <<>> /\ Head(requests[c].todo) = "controller"
    /\ requests' = [requests EXCEPT ![c].handled = @ + 1, ![c].todo = Tail(@)]
    /\ UNCHANGED <<connectionPromise, connections, returned, boot, restVars>>

\* the error-handling middleware is invoked with the BadRequestError
RunErrorHandler(c) ==
    /\ requests[c].todo # <<>> /\ Head(requests[c].todo) = "errorHandler"
    /\ requests' = [requests EXCEPT ![c].errors = @ + 1, ![c].todo = Tail(@)]
    /\ UNCHANGED <<connectionPromise, connections, returned, boot, restVars>>

\* the exchange is over
Respond(c) ==
    /\ requests[c] # NoRequest /\ requests[c].todo = <<>>
    /\ requests' = [requests EXCEPT ![c] = NoRequest]
    /\ UNCHANGED <<connectionPromise, connections, returned, boot, restVars>>

\* Requests with complete and with empty bodies, with and without the
\* Idempotency-Key header.
MiddlewareNext ==
    \/ \E c \in ApiCallers, route \in Routes, hasKey \in BOOLEAN :
            \E body \in {{}, Required(route)} : Receive(c, route, body, hasKey)
    \/ \E c \in ApiCallers :
            \/ RunValidator(c) \/ RunIdempotency(c)
            \/ RunController(c) \/ RunErrorHandler(c)
            \/ Respond(c)

MiddlewareSpec == Init /\ [][MiddlewareNext]_vars

\* The three creating endpoints and what the API answers.
NewEmployees == [email : Emails, departmentId : {"d1", MissingDept}]

\* payloads that carry a status of their own, with equal and with valid dates
StatusLeaves ==
    [employeeId : {"e1"}, startDate : StartDates, endDate : {Day, 3 * Day},
     status : {"APPROVED"}]

ApiNext ==
    \/ \E c \in ApiCallers : StartCreateDepartment(c, "k1")
    \/ \E c \in ApiCallers, info \in NewEmployees : StartCreateEmployee(c, info, "k1")
    \/ \E c \in ApiCallers, payload \in LongLeaves \cup StatusLeaves :
            StartCreate(c, payload, "k1")
    \/ \E c \in ApiCallers : DepartmentSteps(c) \/ EmployeeSteps(c) \/ CreateSteps(c)
    \/ \E c \in ApiCallers : Release(c)

ApiSpec == Init /\ [][ApiNext]_vars

\* The queue pipeline: creation, the producer, the worker and a competing
\* API update.
ValidLeaves == [employeeId : {"e1"}, startDate : StartDates, endDate : {2 * Day, 3 * Day}]

\* one createLeaveRequest at a time, MaxLeaves rows at most
QueueCreate(c, payload, k) ==
    /\ nextLeaveId <= MaxLeaves
    /\ \A a \in ApiCallers : calls[a].op # "create"
    /\ StartCreate(c, payload, k)

WorkerNext ==
    \/ \E c \in ApiCallers, payload \in ValidLeaves, k \in IdemKeys : QueueCreate(c, payload, k)
    \/ \E c \in ApiCallers, id \in 1..(nextLeaveId - 1), k \in IdemKeys :
            StartUpdate(c, id, "REJECTED", k)
    \/ \E c \in Callers : CreateSteps(c) \/ UpdateSteps(c)
    \/ \E p \in pendingPub : sendMessageToQueue(p)
    \/ \E w \in Workers : handleMessage(w)
    \/ \E c \in Callers : Release(c)

WorkerSpec == Init /\ [][WorkerNext]_vars

\* The pipeline with a broker that may deliver twice and a queue that other
\* producers can write to.
IntakeNext ==
    \/ WorkerNext
    \/ ForeignPublish
    \/ \E w \in Workers : Redeliver(w)

IntakeSpec == Init /\ [][IntakeNext]_vars

\* The worker in front of a main queue whose messages carry headers, with no
\* leave request in the store: every delivery fails.
ReplayBodies  == {NotJson, JSONstringify(ObjectMessage("k1", 1))}
ReplayHeaders ==
    {NoHeaders} \cup {[h \in {"x-retry-count"} |-> n] : n \in {MAX_RETRIES - 1, MAX_RETRIES}}

RetryNext ==
    \/ \E b \in ReplayBodies, h \in ReplayHeaders : ReplayPublish(b, h)
    \/ \E w \in Workers : handleMessage(w)
    \/ \E w \in Workers : UpdateCheck(w) \/ UpdateFind(w)
    \/ \E p \in pendingPub : sendMessageToQueue(p)
    \/ \E w \in Workers : Release(w)

RetrySpec == Init /\ [][RetryNext]_vars

\* The consume callback as the channel invokes it: channel.consume is given
\* no prefetch limit and does not wait for the promise handleMessage returns,
\* so a delivery is handed to a new activation whenever the queue holds one.
ChannelNext ==
    \/ ReplayPublish(JSONstringify(ObjectMessage("k1", 1)), NoHeaders)
    \/ \E w \in Handlers : handleMessage(w)
    \/ \E w \in Handlers : UpdateCheck(w) \/ UpdateFind(w)
    \/ \E p \in pendingPub : sendMessageToQueue(p)
    \/ \E w \in Handlers : Release(w)

ChannelSpec == Init /\ [][ChannelNext]_vars

\* ------------------------------------ listEmployees and listDepartments
\* the cache key "employees:all" of the employee list
EmployeesAllKey ==
    [kind |-> "employees:all", ns |-> Null, key |-> Null,
     dept |-> Null, variant |-> Null, page |-> 0, limit |-> 0]

ListKey(variant) == IF variant = "employees:all" THEN EmployeesAllKey ELSE DepartmentsAllKey

\* listEmployees ("employees:all") or listDepartments ("departments:all")
StartList(c, variant) ==
    /\ c \in ApiCallers
    /\ calls[c].op = "idle"
    /\ Admit
    /\ Set(c, [Idle EXCEPT !.op = "list", !.variant = variant, !.pc = "get"])
    /\ UNCHANGED <<storeVars, cache, queueVars, faults, succeeded, commits, processVars>>

\* const cached = await redisClient.get(cacheKey); if (cached) return JSON.parse(cached)
ListGet(c) ==
    /\ calls[c].op = "list" /\ calls[c].pc = "get"
    /\ LET cacheKey == ListKey(calls[c].variant)
       IN  Set(c, IF Exists(cache, cacheKey)
                  THEN [calls[c] EXCEPT !.pc = "done", !.result = Ok,
                                        !.response = cache[cacheKey]]
                  ELSE [calls[c] EXCEPT !.pc = "load"])
    /\ UNCHANGED <<storeVars, cache, queueVars, started, faults, succeeded, commits, processVars>>

\* await getAllEmployees() / await getAllDepartments()
ListLoad(c) ==
    /\ calls[c].op = "list" /\ calls[c].pc = "load"
    /\ Set(c, [calls[c] EXCEPT !.pc = "set",
                               !.response = IF calls[c].variant = "employees:all"
                                            THEN [rows |-> {employees[i] : i \in 1..Len(employees)}]
                                            ELSE [rows |-> departments]])
    /\ UNCHANGED <<storeVars, cache, queueVars, started, faults, succeeded, commits, processVars>>

\* await redisClient.setEx(cacheKey, this.CACHE_TTL, JSON.stringify(...))
ListSet(c) ==
    /\ calls[c].op = "list" /\ calls[c].pc = "set"
    /\ cache' = SetEx(cache, ListKey(calls[c].variant), calls[c].response)
    /\ Set(c, [calls[c] EXCEPT !.pc = "done", !.result = Ok])
    /\ UNCHANGED <<storeVars, queueVars, started, faults, succeeded, commits, processVars>>

ListSteps(c) == ListGet(c) \/ ListLoad(c) \/ ListSet(c)

\* The two unpaginated lists next to the mutations of their tables.
ListedEmployees == [email : {"b@x.io"}, departmentId : {"d1", Null}]

ListNext ==
    \/ \E c \in ApiCallers, v \in {"employees:all", "departments:all"} : StartList(c, v)
    \/ \E c \in ApiCallers : StartCreateDepartment(c, "k1")
    \/ \E c \in ApiCallers, info \in ListedEmployees : StartCreateEmployee(c, info, "k1")
    \/ \E c \in ApiCallers : ListSteps(c) \/ DepartmentSteps(c) \/ DepartmentTxnFail(c)
                                 \/ EmployeeSteps(c)
    \/ \E c \in ApiCallers : Release(c)

ListSpec == Init /\ [][ListNext]_vars

\* ------------------------------------ invalidateDepartmentEmployeeCaches

\* !departmentId
Falsy(d) == d \in {Null, Undefined, ""}

\* keys a cache can hold when the method is called, and the arguments it is
\* called with
SomeKeys ==
    {PageKey("d1", "employees", 1, 1), PageKey("d1", "employeesWithLeaves", 2, 1),
     PageKey("d2", "employees", 1, 1), EmployeesAllKey, DepartmentsAllKey,
     IdemKey(Namespace("create"), "k1")}
DepartmentArgs == {Null, "", "d1", "d2"}

\* any of those caches, nothing in flight
InvalidateInit ==
    /\ ProcessInit
    /\ employees = << [id |-> "e1", email |-> "a@x.io", departmentId |-> "d1"] >>
    /\ departments = DeptIds
    /\ leaves = [i \in {} |-> NoRow]
    /\ nextLeaveId = 1
    /\ \E ks \in SUBSET SomeKeys : cache = [k \in ks |-> NoResponse]
    /\ mainQueue = <<>>
    /\ unacked = [w \in {} |-> Null]
    /\ dlq = <<>>
    /\ pendingPub = {}
    /\ calls = [c \in Callers |-> Idle]
    /\ started = 0
    /\ faults = 0
    /\ succeeded = {}
    /\ commits = {}

\* if (!departmentId) return; otherwise run up to the await of redisClient.keys
StartInvalidate(c, d) ==
    /\ c \in ApiCallers
    /\ calls[c].op = "idle"
    /\ Admit
    /\ Set(c, [Idle EXCEPT !.op = "invalidate", !.dept = d,
                           !.pc = IF Falsy(d) THEN "done" ELSE "keys",
                           !.result = IF Falsy(d) THEN Ok ELSE NoResult])
    /\ UNCHANGED <<storeVars, cache, queueVars, faults, succeeded, commits, processVars>>

\* const keys = await redisClient.keys(`departments:${departmentId}:employees*`)
InvalidateKeys(c) ==
    /\ calls[c].op = "invalidate" /\ calls[c].pc = "keys"
    /\ LET keys == KeysMatching(cache, calls[c].dept)
       IN  Set(c, [calls[c] EXCEPT !.keys = keys,
                                   !.pc = IF keys # {} THEN "del" ELSE "done",
                                   !.result = IF keys # {} THEN NoResult ELSE Ok])
    /\ UNCHANGED <<storeVars, cache, queueVars, started, faults, succeeded, commits, processVars>>

\* if (keys.length) await redisClient.del(keys)
InvalidateDel(c) ==
    /\ calls[c].op = "invalidate" /\ calls[c].pc = "del"
    /\ cache' = Del(cache, calls[c].keys)
    /\ Set(c, [calls[c] EXCEPT !.pc = "done", !.result = Ok, !.dels = @ + 1])
    /\ UNCHANGED <<storeVars, queueVars, started, faults, succeeded, commits, processVars>>

InvalidateNext ==
    \/ \E c \in ApiCallers, d \in DepartmentArgs : StartInvalidate(c, d)
    \/ \E c \in ApiCallers : InvalidateKeys(c) \/ InvalidateDel(c)
    \/ \E c \in ApiCallers : Release(c)

InvalidateSpec == InvalidateInit /\ [][InvalidateNext]_vars

\* The same pipeline when the broker keeps delivering, every awaited command
\* returns and every pending publish gets its channel.
Fairness ==
    /\ \A c \in Callers : WF_vars(CreateSteps(c) \/ UpdateSteps(c))
    /\ \A c \in Callers : WF_vars(Release(c))
    /\ \A w \in Workers : WF_vars(handleMessage(w))
    /\ WF_vars(\E p \in pendingPub : sendMessageToQueue(p))

WorkerFairSpec == Init /\ [][WorkerNext]_vars /\ Fairness

\* ======================================================================
\* Properties
\* ======================================================================
Done(c, op) == calls[c].op = op /\ calls[c].pc = "done"
QueueSet == {mainQueue[i] : i \in 1..Len(mainQueue)}

C2_RepeatIsConflict ==
    \A c \in ApiCallers :
        (calls[c].pc = "done" /\ calls[c].afterSuccess
            /\ calls[c].op \in {"create", "update", "delete"}) =>
                /\ calls[c].result.kind = "ConflictError"
                /\ calls[c].txn = 0
                /\ calls[c].records = 0

\* C3 as stated: at most one createLeaveRequest insert commits per key.
C3_AtMostOneCommit ==
    \A x, y \in commits : x.key = y.key => x.id = y.id

\* C3 amended: every committed insert belongs to a call that started before
\* any record of its key existed; a call that starts once the record is
\* written opens no transaction.
C3_CommitOnlyBeforeRecord ==
    /\ \A x \in commits : ~x.afterRecord
    /\ \A c \in ApiCallers :
          (calls[c].op = "create" /\ calls[c].afterRecord) =>
              calls[c].txn = 0 /\ calls[c].row = NoRow

\* C3 witness: two concurrent first attempts with one key have both committed,
\* and a third call with that key, started after the record, was turned away.
C3_Witness ==
    /\ \E x, y \in commits : x.key = y.key /\ x.id # y.id
    /\ \E c \in ApiCallers :
          Done(c, "create") /\ calls[c].afterRecord
              /\ calls[c].result.kind = "ConflictError"

\* C4: updateStatus opens its transaction only for a request it loaded as
\* PENDING; one it loaded as APPROVED or REJECTED is rejected with BadRequest
\* naming the current and the requested status, with no transaction.
C4_WriteOnlyFromPending ==
    \A c \in ApiCallers :
        calls[c].op = "update" =>
            /\ (calls[c].txn > 0 \/ calls[c].pc = "txn") =>
                   calls[c].existing.status = "PENDING"
            /\ calls[c].existing.status \in {"APPROVED", "REJECTED"} =>
                   /\ calls[c].pc = "done"
                   /\ calls[c].txn = 0
                   /\ calls[c].result =
                        [kind |-> "BadRequestError",
                         msg |-> <<"Cannot update leave request status from",
                                   calls[c].existing.status, "to", calls[c].status,
                                   "Only PENDING requests can be updated.">>]

\* C4 witness: an update to REJECTED of an APPROVED request was rejected.
C4_Witness ==
    \E c \in ApiCallers :
        /\ Done(c, "update")
        /\ calls[c].existing.status = "APPROVED"
        /\ calls[c].status = "REJECTED"
        /\ calls[c].result.kind = "BadRequestError"

\* C5: with the updateStatus calls in flight holding pairwise distinct keys
\* and asking for APPROVED or REJECTED, the status of a leave request changes
\* only from PENDING, and only to APPROVED or REJECTED; an APPROVED or
\* REJECTED request keeps its status.
C5_TerminalStatus ==
    [][(/\ \A c, d \in Callers :
            (c # d /\ calls[c].op = "update" /\ calls[d].op = "update") =>
                calls[c].key # calls[d].key
        /\ \A c \in Callers :
            calls[c].op = "update" => calls[c].status \in {"APPROVED", "REJECTED"}) =>
       \A id \in DOMAIN leaves \cap DOMAIN leaves' :
          leaves'[id].status # leaves[id].status =>
              /\ leaves[id].status = "PENDING"
              /\ leaves'[id].status \in {"APPROVED", "REJECTED"}]_vars

\* C6: at the step that completes a successful createEmployee,
\* createLeaveRequest, updateStatus or deleteLeaveRequest affecting department
\* D, no cache key departments:D:employees* exists.
C6_NoPageAfterMutation ==
    [][\A c \in ApiCallers :
          (/\ calls[c].pc # "done" /\ calls'[c].pc = "done"
           /\ calls'[c].op \in {"employee", "create", "update", "delete"}
           /\ calls'[c].result.kind = "ok") =>
              \A k \in DOMAIN cache' :
                  ~(k.kind = "departments"
                      /\ k.dept = calls'[c].employee.departmentId)]_vars

\* C7: a message whose adjudication has failed on 5 deliveries is in the
\* dead-letter queue with header x-original-queue, and is neither in the main
\* queue nor on its way back to it.
C7_DeadLetterAfterFive ==
    /\ \A m \in QueueSet : m.fails < 5
    /\ \A p \in pendingPub : p.fails < 5
    /\ \A i \in 1..Len(dlq) : "x-original-queue" \in DOMAIN dlq[i].headers

\* C8: the first publish carries no x-retry-count; every message re-published
\* after a failed delivery carries the failed delivery's count plus one.
C8_RetryHeader ==
    \A m \in QueueSet :
        IF m.retry
        THEN /\ "x-retry-count" \in DOMAIN m.headers
             /\ m.headers["x-retry-count"] = m.count
        ELSE "x-retry-count" \notin DOMAIN m.headers

\* the message of leave request id has failed 1..4 times and is in the main
\* queue or on its way back to it
C9_Pipeline(id) ==
    \/ \E m \in QueueSet : m.content.leaveId = id /\ m.fails \in 1..4
    \/ \E p \in pendingPub : p.message.content.leaveId = id /\ p.fails \in 1..4

\* C9: once the injected failures are used up, a request that is still
\* PENDING and whose message has failed fewer than MAX_RETRIES times and is
\* still in the pipeline is eventually adjudicated (its status leaves PENDING).
C9_EventuallyApproved ==
    \A id \in 1..MaxLeaves :
        [](( /\ faults = MaxFaults
             /\ id \in DOMAIN leaves
             /\ leaves[id].status = "PENDING"
             /\ C9_Pipeline(id))
           => <>(id \in DOMAIN leaves /\ leaves[id].status # "PENDING"))

\* C10: createLeaveRequest tests the duplicate key first, then the employee,
\* then the dates (equal dates included); the first failing test decides the
\* error and leaves no transaction, record, cache deletion or publish behind.
C10_CheckOrder ==
    \A c \in ApiCallers :
        Done(c, "create") =>
            LET r == calls[c]
                kind == r.result.kind
                missing == \A i \in 1..Len(employees) :
                               employees[i].id # r.payload.employeeId
                badDates == r.payload.endDate <= r.payload.startDate
            IN  /\ r.afterRecord => kind = "ConflictError"
                /\ (kind # "ConflictError" /\ missing) => kind = "NotFoundError"
                /\ (kind \notin {"ConflictError", "NotFoundError"} /\ badDates) =>
                       r.result = [kind |-> "BadRequestError",
                                   msg |-> <<"End date must be after start date">>]
                /\ kind = "NotFoundError" => missing
                /\ kind = "BadRequestError" => badDates
                /\ kind \in {"ConflictError", "NotFoundError", "BadRequestError"} =>
                       /\ r.txn = 0 /\ r.records = 0 /\ r.dels = 0
                       /\ r.sent = <<>> /\ r.row = NoRow

\* C10 witness: a call with a recorded key, an unknown employee and equal
\* dates has been answered with Conflict.
C10_Witness ==
    \E c \in ApiCallers :
        /\ Done(c, "create") /\ calls[c].afterRecord
        /\ calls[c].payload.employeeId = MissingEmployee
        /\ calls[c].payload.endDate = calls[c].payload.startDate
        /\ calls[c].result.kind = "ConflictError"

\* C11: a createLeaveRequest whose transaction failed ends with that error
\* and has written no idempotency record, deleted no cache key and published
\* nothing; a record of a create key exists only when an insert with that key
\* committed, so a later call with the key of a failed call is rejected as a
\* duplicate only if some other call with that key committed.
C11_FailedCreateLeavesNoTrace ==
    /\ \A c \in ApiCallers :
          (Done(c, "create") /\ calls[c].result.kind = "QueryFailedError") =>
              /\ calls[c].txn = 1 /\ calls[c].row = NoRow
              /\ calls[c].records = 0 /\ calls[c].dels = 0 /\ calls[c].sent = <<>>
    /\ \A k \in IdemKeys :
          Exists(cache, IdemKey(Namespace("create"), k)) =>
              \E x \in commits : x.key = k
    /\ \A c \in ApiCallers :
          (Done(c, "create") /\ calls[c].result.kind = "ConflictError") =>
              \E x \in commits : x.key = calls[c].key

\* C11 witness: a call whose key was used by a call that failed in its
\* transaction has returned normally.
C11_Witness ==
    \E c \in ApiCallers :
        /\ Done(c, "create")
        /\ calls[c].prior.kind = "QueryFailedError"
        /\ calls[c].result = Ok
        /\ calls[c].records = 1

\* the store mutation of the call c, which is about to write its record, has
\* committed
Committed(c) ==
    /\ calls[c].pc = "record" /\ calls[c].txn > 0
    /\ CASE calls[c].op = "create" ->
                /\ [key |-> calls[c].key, id |-> calls[c].row.id,
                    afterRecord |-> calls[c].afterRecord] \in commits
                /\ calls[c].row.id < nextLeaveId
           [] calls[c].op = "update" ->
                calls[c].row # NoRow /\ calls[c].row.status = calls[c].status
           [] calls[c].op = "delete" -> calls[c].id \notin DOMAIN leaves
           [] calls[c].op = "employee" ->
                \E i \in 1..Len(employees) : employees[i] = calls[c].employee
           [] OTHER -> FALSE

\* C12: an idempotency record is written (or overwritten) only by a call
\* whose store mutation has already committed, under the namespace and key of
\* that call.
C12_RecordAfterCommit ==
    [][\A k \in DOMAIN cache' :
          (k.kind = "idempotency" /\ (k \notin DOMAIN cache \/ cache'[k] # cache[k])) =>
              \E c \in Callers :
                  /\ Committed(c)
                  /\ calls[c].key = k.key
                  /\ Namespace(calls[c].op) = k.ns
                  /\ calls'[c].records = calls[c].records + 1]_vars

\* C12 witness: the record of an update exists and the row carries the
\* status that update wrote, while a transaction that failed left no record.
C12_Witness ==
    /\ \E k \in IdemKeys :
          /\ Exists(cache, IdemKey(Namespace("update"), k))
          /\ LET rec == cache[IdemKey(Namespace("update"), k)]
             IN  /\ rec.leaveRequestId \in DOMAIN leaves
                 /\ leaves[rec.leaveRequestId].status = rec.status
    /\ \E c \in ApiCallers :
          /\ calls[c].pc = "done" /\ calls[c].txn = 1 /\ calls[c].records = 0
          /\ Threw(calls[c].result)

\* C13: every message createLeaveRequest hands to the producer, and every
\* first-publish message in the main queue, names the id and key of an insert
\* that has committed; a call that threw has published nothing.
C13_PublishAfterCommit ==
    /\ \A c \in ApiCallers :
          (calls[c].op = "create" /\ calls[c].sent # <<>>) =>
              /\ calls[c].txn = 1
              /\ calls[c].result = Ok
              /\ \E x \in commits : /\ x.key = calls[c].sent[1].idempotencyKey
                                     /\ x.id = calls[c].sent[1].leaveId
    /\ \A c \in ApiCallers :
          (Done(c, "create") /\ Threw(calls[c].result)) => calls[c].sent = <<>>
    /\ \A p \in pendingPub :
          ~p.retry => \E x \in commits : /\ x.key = p.message.idempotencyKey
                                          /\ x.id = p.message.leaveId
    /\ \A m \in QueueSet :
          ~m.retry => \E x \in commits : /\ x.key = m.content.idempotencyKey
                                          /\ x.id = m.content.leaveId

\* C13 witness: the message of a committed insert is in the main queue, and
\* a call whose transaction failed has settled without a publish.
C13_Witness ==
    /\ \E m \in QueueSet : \E x \in commits : x.id = m.content.leaveId
    /\ \E c \in ApiCallers :
          /\ Done(c, "create")
          /\ calls[c].result.kind = "QueryFailedError"
          /\ calls[c].sent = <<>>

\* C14: whenever the handling of a delivery fails, whatever the failure
\* (SyntaxError of the parse, Conflict, not found, invalid transition, store
\* error), the handler completes in its catch block: by the retry count alone
\* the body goes to the dead-letter queue or to sendMessageToQueue, and the
\* delivery is acknowledged; a delivery that does not fail is acknowledged.
C14_UniformRetryPath ==
    [][\A w \in Workers :
          (calls[w].pc # "done" /\ calls'[w].pc = "done") =>
              LET msg == IF w \in DOMAIN unacked THEN unacked[w] ELSE Head(mainQueue)
              IN  /\ w \notin DOMAIN unacked'
                  /\ \A i \in 1..Len(mainQueue') : mainQueue'[i] \in QueueSet
                  /\ IF ~Threw(calls'[w].result)
                     THEN /\ calls'[w].outcome = "ack"
                          /\ dlq' = dlq /\ pendingPub' = pendingPub
                     ELSE IF RetryHeader(msg.headers) + 1 > 5
                     THEN /\ calls'[w].outcome = "dlq"
                          /\ Len(dlq') = Len(dlq) + 1
                          /\ dlq'[Len(dlq')].content = msg.content
                          /\ pendingPub' = pendingPub
                     ELSE /\ calls'[w].outcome = "requeue"
                          /\ dlq' = dlq
                          /\ \E p \in pendingPub' :
                                /\ p.message.type = "buffer"
                                /\ p.message.content = msg.content
                                /\ pendingPub' = pendingPub \cup {p}]_vars

\* C14 witness: a body that is not JSON has been delivered and handed to
\* sendMessageToQueue for a re-publish.
C14_Witness ==
    \E w \in Workers :
        /\ calls[w].pc = "done"
        /\ calls[w].result.kind = "SyntaxError"
        /\ calls[w].outcome = "requeue"
        /\ \E p \in pendingPub : p.retry /\ p.message.content = NotJson

\* a stored leave request of two days or more
LongLeave(id) ==
    id \in DOMAIN leaves /\ leaves[id].endDate - leaves[id].startDate >= TwoDays

\* every message body in the broker or on its way to it
Bodies ==
    {m.content : m \in QueueSet}
        \cup {unacked[w].content : w \in DOMAIN unacked}
        \cup {dlq[i].content : i \in 1..Len(dlq)}
        \cup {JSONstringify(p.message) : p \in pendingPub}

C16_DuplicateIs409 ==
    \A c \in ApiCallers :
        (calls[c].pc = "done" /\ calls[c].afterRecord
            /\ calls[c].op \in {"department", "employee", "create"}) =>
                /\ errorHandler(calls[c].result).statusCode = 409
                /\ errorHandler(calls[c].result).message = <<Duplicate>>

\* C17: createEmployee answers a departmentId that names no department with
\* NotFound and an e-mail held by an employee with Conflict (after the
\* duplicate-key test), in both cases with no transaction, no idempotency
\* record and no cache deletion; the key has a record, and is refused as a
\* duplicate, only when an employee was created under it.
C17_EmployeeRejections ==
    /\ \A c \in ApiCallers :
          Done(c, "employee") =>
              LET r == calls[c]
                  duplicate == r.result = Err("ConflictError", <<Duplicate>>)
                  missing == r.info.departmentId \notin departments
                  taken == Err("ConflictError",
                               <<"Employee with email", r.info.email, "already exists">>)
              IN  /\ (~duplicate /\ missing) =>
                         r.result = Err("NotFoundError",
                             <<"Department with ID", r.info.departmentId, "not found">>)
                  /\ (~duplicate /\ ~missing /\ r.info.email = employees[1].email) =>
                         r.result = taken
                  /\ r.result.kind = "NotFoundError" => missing
                  /\ r.result = taken =>
                         \E i \in 1..Len(employees) : employees[i].email = r.info.email
                  /\ (r.result.kind = "NotFoundError" \/ r.result = taken) =>
                         r.txn = 0 /\ r.records = 0 /\ r.dels = 0
                  /\ duplicate => Exists(cache, IdemKey(Namespace("employee"), r.key))
    /\ \A k \in IdemKeys :
          Exists(cache, IdemKey(Namespace("employee"), k)) =>
              \E i \in 1..Len(employees) :
                  employees[i].id = cache[IdemKey(Namespace("employee"), k)].employeeId

\* C17 witness: a call whose key was used by a call rejected with NotFound
\* has created its employee.
C17_Witness ==
    \E c \in ApiCallers :
        /\ Done(c, "employee")
        /\ calls[c].prior.kind = "NotFoundError"
        /\ calls[c].result = Ok
        /\ calls[c].txn = 1 /\ calls[c].records = 1

\* a stored leave request of less than two days
C18_Short(id) ==
    id \in DOMAIN leaves /\ leaves[id].endDate - leaves[id].startDate < TwoDays

\* the message of leave request id is in the main queue, delivered and not
\* acknowledged, or on its way to the main queue
C18_Queued(id) ==
    \/ \E m \in QueueSet : m.content.leaveId = id
    \/ \E w \in DOMAIN unacked : unacked[w].content.leaveId = id
    \/ \E p \in pendingPub : JSONstringify(p.message).leaveId = id

\* updateStatus has failed on a delivery of the message of leave request id,
\* or another actor has adjudicated the request
C18_Disturbed(id) ==
    \/ id \in DOMAIN leaves /\ leaves[id].status = "REJECTED"
    \/ \E m \in QueueSet : m.content.leaveId = id /\ m.fails >= 1
    \/ \E w \in DOMAIN unacked : unacked[w].content.leaveId = id /\ unacked[w].fails >= 1
    \/ \E p \in pendingPub : JSONstringify(p.message).leaveId = id /\ p.fails >= 1
    \/ \E i \in 1..Len(dlq) : dlq[i].content.leaveId = id /\ dlq[i].fails >= 1

\* C18: with the worker consuming, every awaited command returning and every
\* publish reaching the broker, a stored leave request of less than two days
\* is eventually APPROVED with its message gone from the main queue, unless
\* updateStatus fails on a delivery of its message or another actor
\* adjudicates it.
C18_ShortLeaveApproved ==
    \A id \in 1..MaxLeaves :
        [](C18_Short(id) =>
            <>(\/ C18_Disturbed(id)
               \/ /\ id \in DOMAIN leaves
                  /\ leaves[id].status = "APPROVED"
                  /\ ~C18_Queued(id)))

\* C18 witness: a leave request of less than two days is APPROVED, the
\* worker has acknowledged its message, no delivery of it has failed and it
\* is no longer queued.
C18_Witness ==
    \E id \in DOMAIN leaves :
        /\ C18_Short(id)
        /\ leaves[id].status = "APPROVED"
        /\ ~C18_Disturbed(id)
        /\ ~C18_Queued(id)
        /\ \E w \in Workers :
              /\ Done(w, "update") /\ calls[w].id = id
              /\ calls[w].result = Ok /\ calls[w].outcome = "ack"

\* C19: a delivery whose idempotency key belongs to an updateStatus that has
\* already succeeded stops at the idempotency test with Conflict: the call
\* opens no transaction, writes no record, deletes no cache key, and none of
\* its steps changes a leave request or the cache.
C19_RedeliveryHasNoEffect ==
    /\ [](\A w \in Workers :
            (calls[w].op = "update" /\ calls[w].afterSuccess) =>
                /\ calls[w].pc \in {"check", "done"}
                /\ calls[w].txn = 0 /\ calls[w].records = 0 /\ calls[w].dels = 0
                /\ calls[w].pc = "done" =>
                       calls[w].result = Err("ConflictError", <<Duplicate>>))
    /\ [][\A w \in Workers :
            (calls[w].op = "update" /\ calls[w].afterSuccess /\ calls'[w] # calls[w]) =>
                leaves' = leaves /\ cache' = cache /\ commits' = commits]_vars

\* C19 witness: the message of an APPROVED leave request was delivered again
\* after its updateStatus had succeeded, and the second updateStatus has
\* ended with Conflict while the request is still APPROVED.
C19_Witness ==
    \E w \in Workers :
        /\ Done(w, "update") /\ calls[w].afterSuccess
        /\ calls[w].result = Err("ConflictError", <<Duplicate>>)
        /\ calls[w].id \in DOMAIN leaves
        /\ leaves[calls[w].id].status = "APPROVED"
        /\ Exists(cache, IdemKey(Namespace("update"), calls[w].key))

\* endDate - startDate of the payload of call c
C20_Duration(c) == calls[c].payload.endDate - calls[c].payload.startDate

C21_BoundedRetry ==
    /\ \A p \in pendingPub : p.retry => p.fails <= MAX_RETRIES
    /\ \A m \in QueueSet : m.retry => m.fails <= MAX_RETRIES

\* the cache keys departments:<d>:employees* of the department d of the
\* employee whose id the row read before the delete carries
C22_OwnerKeys(c) ==
    {k \in DOMAIN cache :
        /\ k.kind = "departments"
        /\ k.dept = getEmployeeById(calls[c].existing.employeeId).departmentId}

\* C22: a deleteLeaveRequest that passed its idempotency test and found the
\* request commits the delete (the request is gone from then on), writes its
\* record only after that commit, looks up the employee named by the row it
\* read before the delete, and its DEL removes exactly the keys of that
\* employee's department found by its KEYS; it ends normally.
C22_DeleteThenRecordThenInvalidate ==
    /\ [](\A c \in ApiCallers :
            calls[c].op = "delete" =>
                /\ calls[c].pc \in {"record", "employee", "keys", "del"} =>
                       calls[c].txn = 1 /\ calls[c].id \notin DOMAIN leaves
                /\ calls[c].records > 0 =>
                       /\ calls[c].txn = 1
                       /\ Exists(cache, IdemKey(Namespace("delete"), calls[c].key))
                /\ calls[c].pc \in {"keys", "del"} =>
                       /\ calls[c].records = 1
                       /\ calls[c].employee.id = calls[c].existing.employeeId
                /\ calls[c].dels > 0 => calls[c].records = 1 /\ calls[c].keys # {}
                /\ (calls[c].pc = "done" /\ calls[c].existing # NoRow) =>
                       /\ calls[c].result = Ok
                       /\ calls[c].txn = 1 /\ calls[c].records = 1
                       /\ calls[c].id \notin DOMAIN leaves)
    /\ [][\A c \in ApiCallers :
            /\ (calls[c].op = "delete" /\ calls[c].pc = "keys" /\ calls'[c].pc = "del") =>
                   calls'[c].keys = C22_OwnerKeys(c)
            /\ (calls[c].op = "delete" /\ calls[c].pc = "del" /\ calls'[c].pc = "done") =>
                   /\ DOMAIN cache' = DOMAIN cache \ calls[c].keys
                   /\ calls[c].keys \subseteq
                         {k \in calls[c].keys :
                             k.dept = getEmployeeById(calls[c].existing.employeeId).departmentId}]_vars

\* C22 witness: a deleteLeaveRequest has removed an existing request, written
\* its record and deleted the page keys of the owner's department.
C22_Witness ==
    \E c \in ApiCallers :
        /\ Done(c, "delete") /\ calls[c].result = Ok
        /\ calls[c].existing # NoRow
        /\ calls[c].id \notin DOMAIN leaves
        /\ calls[c].txn = 1 /\ calls[c].records = 1 /\ calls[c].dels = 1
        /\ calls[c].keys # {}
        /\ Exists(cache, IdemKey(Namespace("delete"), calls[c].key))

\* C23: an updateStatus or deleteLeaveRequest that finds no leave request
\* under its id ends with the NotFound error kind, answered 404, having
\* opened no transaction, written no record and deleted no cache key.
C23_MissingLeaveIsNotFound ==
    \A c \in ApiCallers :
        (/\ calls[c].pc = "done" /\ calls[c].op \in {"update", "delete"}
         /\ calls[c].id \notin DOMAIN leaves
         /\ calls[c].existing = NoRow
         /\ calls[c].result # Err("ConflictError", <<Duplicate>>)
         /\ calls[c].result # Err("Error", <<Duplicate>>)) =>
            /\ calls[c].result.kind = "NotFoundError"
            /\ errorHandler(calls[c].result).statusCode = 404
            /\ calls[c].txn = 0 /\ calls[c].records = 0 /\ calls[c].dels = 0

\* C24: every row a step adds to the leave requests has status PENDING,
\* whatever status the payload carries, and the employee and dates of the
\* payload of the call that inserted it; every stored leave request has
\* endDate > startDate.
C24_InsertedPending ==
    /\ [](\A id \in DOMAIN leaves : leaves[id].endDate > leaves[id].startDate)
    /\ [][\A id \in DOMAIN leaves' \ DOMAIN leaves :
            /\ leaves'[id].status = "PENDING"
            /\ leaves'[id].endDate > leaves'[id].startDate
            /\ \E c \in ApiCallers :
                  /\ calls[c].op = "create" /\ calls[c].pc = "txn"
                  /\ calls'[c].row = leaves'[id]
                  /\ leaves'[id].employeeId = calls[c].payload.employeeId
                  /\ leaves'[id].startDate = calls[c].payload.startDate
                  /\ leaves'[id].endDate = calls[c].payload.endDate]_vars

\* C24 witness: a payload carrying status APPROVED was inserted, and its row
\* is PENDING.
C24_Witness ==
    \E c \in ApiCallers :
        /\ Done(c, "create") /\ calls[c].result = Ok
        /\ "status" \in DOMAIN calls[c].payload
        /\ calls[c].payload.status = "APPROVED"
        /\ calls[c].row.id \in DOMAIN leaves
        /\ leaves[calls[c].row.id].status = "PENDING"
        /\ leaves[calls[c].row.id].endDate > leaves[calls[c].row.id].startDate

\* C25: while the replacement copy of a failed delivery is still waiting to
\* be published to the main queue, the delivery it replaces has not been
\* acknowledged.
C25_NoAckWhilePublishPending ==
    \A p \in pendingPub :
        p.retry => \E w \in DOMAIN unacked : unacked[w].content = p.message.content

\* the delivery whose failure the step of worker w settles
C26_Delivery(w) == IF calls[w].op = "idle" THEN Head(mainQueue) ELSE unacked[w]

\* C26: the step that settles a failed delivery computes count = (header
\* x-retry-count, 0 when absent) + 1; it appends one message to the
\* dead-letter queue and hands nothing to the producer when count >
\* MAX_RETRIES, and otherwise hands the body to the producer for the main
\* queue and leaves the dead-letter queue alone.
C26_DeadLetterIffExceeded ==
    [][\A w \in Workers :
        (calls'[w] # calls[w] /\ calls'[w].outcome \in {"dlq", "requeue"}) =>
            LET msg == C26_Delivery(w)
                count == (IF "x-retry-count" \in DOMAIN msg.headers
                          THEN msg.headers["x-retry-count"] ELSE 0) + 1
            IN  /\ calls'[w].outcome = "dlq" <=> count > MAX_RETRIES
                /\ calls'[w].outcome = "dlq" =>
                       /\ Len(dlq') = Len(dlq) + 1
                       /\ dlq'[Len(dlq')].content = msg.content
                       /\ pendingPub' = pendingPub
                       /\ mainQueue' = IF calls[w].op = "idle"
                                       THEN Tail(mainQueue) ELSE mainQueue
                /\ calls'[w].outcome = "requeue" =>
                       /\ dlq' = dlq
                       /\ \E p \in pendingPub' :
                             /\ p.retry /\ p.message = BufferMessage(msg.content)
                             /\ pendingPub' = pendingPub \cup {p}]_vars

\* C26 witness: a delivery with x-retry-count = MAX_RETRIES has failed and
\* is in the dead-letter queue, and a delivery with a smaller count has
\* failed and was re-published to the main queue.
C26_Witness ==
    /\ \E w \in Workers : calls[w].outcome = "dlq"
    /\ \E i \in 1..Len(dlq) : dlq[i].headers["x-retry-count"] = MAX_RETRIES
    /\ \E m \in QueueSet : m.retry /\ m.count = MAX_RETRIES

\* C27: a message re-published to the main queue after a failed delivery
\* has the body of the first publish: it is not a serialised Buffer, and it
\* parses to the {leaveId, idempotencyKey} pair the original body carried.
C27_RepublishKeepsBody ==
    \A m \in QueueSet :
        m.retry =>
            /\ m.content.wraps = 0
            /\ JSONparse(m.content) = [leaveId |-> m.content.leaveId,
                                       idempotencyKey |-> m.content.idempotencyKey]

\* C28: the message a step appends to the dead-letter queue has the body of
\* the delivery being settled, that delivery's headers plus x-original-queue
\* = RABBITMQ_QUEUE_NAME, and is persistent; messages in the dead-letter
\* queue are never changed or removed.
C28_DeadLetterCopy ==
    /\ [][\A w \in Workers :
            Len(dlq') > Len(dlq) /\ calls'[w] # calls[w] =>
                LET msg == C26_Delivery(w)
                    copy == dlq'[Len(dlq')]
                IN  /\ Len(dlq') = Len(dlq) + 1
                    /\ copy.content = msg.content
                    /\ DOMAIN copy.headers = DOMAIN msg.headers \cup {"x-original-queue"}
                    /\ copy.headers["x-original-queue"] = RABBITMQ_QUEUE_NAME
                    /\ \A h \in DOMAIN msg.headers : copy.headers[h] = msg.headers[h]
                    /\ copy.persistent]_vars
    /\ [][\A i \in 1..Len(dlq) : Len(dlq') >= Len(dlq) /\ dlq'[i] = dlq[i]]_vars

\* C28 witness: a delivery whose body is not JSON and whose x-retry-count is
\* MAX_RETRIES rests in the dead-letter queue with that body and both headers.
C28_Witness ==
    \E i \in 1..Len(dlq) :
        /\ dlq[i].content = NotJson
        /\ DOMAIN dlq[i].headers = {"x-retry-count", "x-original-queue"}
        /\ dlq[i].headers["x-retry-count"] = MAX_RETRIES
        /\ dlq[i].headers["x-original-queue"] = RABBITMQ_QUEUE_NAME
        /\ dlq[i].persistent

\* C29: an updateStatus whose transactional update finds no row returns
\* null: the step changes neither the store nor the cache, and the call has
\* written no record, looked up no employee and deleted no cache key.
C29_NullUpdateIsNoOp ==
    /\ [](\A c \in Callers :
            (Done(c, "update") /\ calls[c].result = ReturnNull) =>
                /\ calls[c].txn = 1 /\ calls[c].records = 0 /\ calls[c].dels = 0
                /\ calls[c].row = NoRow
                /\ calls[c].employee = NoEmployee
                /\ calls[c].keys = {})
    /\ [][\A c \in Callers :
            (calls'[c] # calls[c] /\ calls'[c].result = ReturnNull) =>
                /\ calls[c].op = "update" /\ calls[c].pc = "txn"
                /\ calls[c].id \notin DOMAIN leaves
                /\ cache' = cache /\ leaves' = leaves /\ succeeded' = succeeded]_vars

\* C29 witness: an updateStatus that had found its request PENDING has
\* returned null after the request was deleted, and its key has no record.
C29_Witness ==
    \E c \in ApiCallers :
        /\ Done(c, "update") /\ calls[c].result = ReturnNull
        /\ calls[c].existing # NoRow /\ calls[c].existing.status = "PENDING"
        /\ calls[c].id \notin DOMAIN leaves
        /\ ~Exists(cache, IdemKey(Namespace("update"), calls[c].key))

\* the operations that keep idempotency records
C30_Operations == {"create", "update", "delete", "employee", "department"}

\* a call of operation op with key k has written its record
C30_Recorded(op, k) ==
    \/ <<op, k>> \in succeeded
    \/ \E d \in Callers : calls[d].op = op /\ calls[d].key = k /\ calls[d].records > 0

\* C30: the record keys of two operations never coincide, whatever the two
\* idempotency keys; a call is turned away as a duplicate only when a call
\* of the same operation with the same key has written its record, so a
\* worker's updateStatus is not turned away because of the record the
\* creation wrote under the key it reuses.
C30_NamespacedRecords ==
    /\ \A op1, op2 \in C30_Operations : \A k1, k2 \in IdemKeys :
          IdemKey(Namespace(op1), k1) = IdemKey(Namespace(op2), k2) => op1 = op2 /\ k1 = k2
    /\ \A c \in Callers :
          (/\ calls[c].pc = "done"
           /\ calls[c].op \in C30_Operations
           /\ calls[c].result \in {Err("ConflictError", <<Duplicate>>),
                                    Err("Error", <<Duplicate>>)}) =>
              C30_Recorded(calls[c].op, calls[c].key)
    /\ \A w \in Workers :
          (calls[w].op = "update" /\ ~C30_Recorded("update", calls[w].key)) =>
              calls[w].result # Err("ConflictError", <<Duplicate>>)

\* C30 witness: the worker's updateStatus has succeeded with the key under
\* which the creation had written its record before the worker's call began.
C30_Witness ==
    \E w \in Workers :
        /\ Done(w, "update") /\ calls[w].result = Ok
        /\ ~calls[w].afterSuccess
        /\ <<"create", calls[w].key>> \in succeeded
        /\ Exists(cache, IdemKey(Namespace("create"), calls[w].key))
        /\ Exists(cache, IdemKey(Namespace("update"), calls[w].key))
        /\ cache[IdemKey(Namespace("create"), calls[w].key)].leaveRequestId = calls[w].id

\* the cache keys of the form departments:<d>:employees...
C31_Pattern(d) ==
    {k \in DOMAIN cache :
        k.kind = "departments" /\ k.dept = d
            /\ k.variant \in {"employees", "employeesWithLeaves"}}

\* C31: invalidateDepartmentEmployeeCaches returns at once, touching
\* nothing, when its argument is empty or absent; otherwise its KEYS finds
\* exactly the keys departments:<D>:employees*, it issues one DEL with those
\* keys when there are any and none otherwise, and the DEL removes those keys
\* and changes no other entry.
C31_InvalidateFrame ==
    /\ [](\A c \in ApiCallers :
            calls[c].op = "invalidate" =>
                /\ Falsy(calls[c].dept) =>
                       calls[c].pc = "done" /\ calls[c].keys = {} /\ calls[c].dels = 0
                /\ calls[c].dels = (IF calls[c].pc = "done" /\ calls[c].keys # {}
                                    THEN 1 ELSE 0)
                /\ \A k \in calls[c].keys :
                       k.kind = "departments" /\ k.dept = calls[c].dept)
    /\ [][\A c \in ApiCallers :
            (calls[c].op = "invalidate" /\ calls'[c] # calls[c]) =>
                IF calls[c].pc = "keys"
                THEN /\ cache' = cache
                     /\ calls'[c].keys = C31_Pattern(calls[c].dept)
                     /\ calls'[c].pc = "del" <=> C31_Pattern(calls[c].dept) # {}
                ELSE IF calls[c].pc = "del"
                THEN /\ DOMAIN cache' = DOMAIN cache \ calls[c].keys
                     /\ \A k \in DOMAIN cache' : cache'[k] = cache[k]
                ELSE cache' = cache]_vars
    /\ [][\A c \in ApiCallers :
            (calls[c].op = "idle" /\ calls'[c].op = "invalidate") => cache' = cache]_vars

\* C31 witness: the method has deleted the two page keys of d1 and the
\* page of d2, employees:all, departments:all and the idempotency record
\* are still in the cache.
C31_Witness ==
    \E c \in ApiCallers :
        /\ Done(c, "invalidate") /\ calls[c].dept = "d1"
        /\ Cardinality(calls[c].keys) = 2 /\ calls[c].dels = 1
        /\ DOMAIN cache = {PageKey("d2", "employees", 1, 1), EmployeesAllKey,
                            DepartmentsAllKey, IdemKey(Namespace("create"), "k1")}

\* C32: at most one activation of handleMessage is waiting for updateStatus
\* at any time.
C32_OneDeliveryAtATime ==
    Cardinality({w \in Handlers : calls[w].op = "update" /\ calls[w].pc # "done"}) <= 1

\* C33: a step of createDepartment changes the cache only after its
\* transaction has committed: first by writing idempotency:department:<key>
\* and nothing else, then by deleting departments:all and nothing else. A
\* call that ends normally has done both; a call turned away as a duplicate
\* or whose transaction failed has written no record and deleted nothing.
C33_DepartmentCacheEffect ==
    /\ [](\A c \in ApiCallers :
            Done(c, "department") =>
                IF calls[c].result = Ok
                THEN /\ calls[c].txn = 1 /\ calls[c].records = 1 /\ calls[c].dels = 1
                     /\ calls[c].dept \in departments
                ELSE /\ calls[c].records = 0 /\ calls[c].dels = 0
                     /\ calls[c].dept \notin departments)
    /\ [][\A c \in ApiCallers :
            (calls[c].op = "department" /\ calls'[c] # calls[c]) =>
                LET record == IdemKey(Namespace("department"), calls[c].key)
                IN  IF calls[c].pc = "record"
                    THEN /\ calls[c].txn = 1 /\ calls[c].dept \in departments
                         /\ DOMAIN cache' = DOMAIN cache \cup {record}
                         /\ cache'[record] = [departmentId |-> calls[c].dept]
                         /\ \A k \in DOMAIN cache \ {record} : cache'[k] = cache[k]
                    ELSE IF calls[c].pc = "del"
                    THEN /\ calls[c].txn = 1 /\ calls[c].records = 1
                         /\ DOMAIN cache' = DOMAIN cache \ {DepartmentsAllKey}
                         /\ \A k \in DOMAIN cache' : cache'[k] = cache[k]
                    ELSE cache' = cache]_vars

\* C33 witness: a department list was cached, a createDepartment whose
\* predecessor's transaction had failed has committed, written its record and
\* deleted departments:all.
C33_Witness ==
    \E c, d \in ApiCallers :
        /\ Done(c, "department") /\ calls[c].result = Ok
        /\ Exists(cache, IdemKey(Namespace("department"), calls[c].key))
        /\ ~Exists(cache, DepartmentsAllKey)
        /\ faults = 1
        /\ Done(d, "list") /\ calls[d].variant = "departments:all"
        /\ calls[d].response = [rows |-> departments \ {calls[c].dept}]

\* C34: listEmployeesInDepartment(D, page, limit) echoes page and limit, 1 and
\* 10 when omitted; on a cache miss its data are the employees of D at
\* positions (page-1)*limit .. page*limit-1 of the store order (none when the
\* range is past the end), its count is the number of employees of D, and the
\* response is cached under departments:D:employees:page=<page>&limit=<limit>;
\* on a hit it returns the cached response and the store is not read.
C34_Members(d) == {i \in 1..Len(employees) : employees[i].departmentId = d}
C34_Position(d, i) == Cardinality({j \in C34_Members(d) : j < i})
C34_InRange(d, page, limit) ==
    {i \in C34_Members(d) :
        /\ C34_Position(d, i) >= (page - 1) * limit
        /\ C34_Position(d, i) <= page * limit - 1}
C34_PageOfDepartment ==
    [][\A c \in ApiCallers :
        LET r == calls[c]
            q == calls'[c]
            cacheKey == PageKey(r.dept, "employees", r.page, r.limit)
            InRange == C34_InRange(r.dept, r.page, r.limit)
        IN  /\ (r.op = "idle" /\ q.op = "read" /\ q.variant = "employees") =>
                    /\ q.page = IF Len(q.info) >= 1 THEN q.info[1] ELSE 1
                    /\ q.limit = IF Len(q.info) >= 2 THEN q.info[2] ELSE 10
            /\ (r.op = "read" /\ r.variant = "employees" /\ q # r) =>
                 CASE r.pc = "get" ->
                        IF Exists(cache, cacheKey)
                        THEN /\ q.pc = "done" /\ q.result = Ok
                             /\ q.response = cache[cacheKey]
                        ELSE q.pc = "load"
                   [] r.pc = "load" ->
                        /\ q.pc = "set"
                        /\ q.response.count = Cardinality(C34_Members(r.dept))
                        /\ q.response.page = r.page
                        /\ q.response.limit = r.limit
                        /\ Len(q.response.data) = Cardinality(InRange)
                        /\ \A i \in InRange :
                              LET k == C34_Position(r.dept, i) - (r.page - 1) * r.limit + 1
                              IN  /\ q.response.data[k].id = employees[i].id
                                  /\ q.response.data[k].email = employees[i].email
                                  /\ q.response.data[k].departmentId = r.dept
                   [] r.pc = "set" ->
                        /\ q.pc = "done" /\ q.result = Ok
                        /\ q.response = r.response
                        /\ Exists(cache', cacheKey)
                        /\ cache'[cacheKey] = r.response
                   [] OTHER -> q = Idle]_vars
C34_Witness ==
    \E c, d \in ApiCallers :
        /\ Done(c, "read") /\ calls[c].info = <<>>
        /\ calls[c].response.page = 1 /\ calls[c].response.limit = 10
        /\ calls[c].response.count = 2 /\ Len(calls[c].response.data) = 2
        /\ Exists(cache, PageKey("d1", "employees", 1, 10))
        /\ cache[PageKey("d1", "employees", 1, 10)] = calls[c].response
        /\ Done(d, "read") /\ calls[d].info = <<2, 1>>
        /\ calls[d].response.count = 2
        /\ Len(calls[d].response.data) = 1
        /\ calls[d].response.data[1].email = "b@x.io"

\* C35: at most one broker connection is live or being established at any
\* time, and the cached promise is cleared only by an event of the attempt it
\* caches: an error or close of an older connection leaves a newer promise
\* in place.
C35_Live == {n \in DOMAIN connections : connections[n] \in {"pending", "open"}}
C35_AtMostOneConnection == Cardinality(C35_Live) <= 1

\* C36: initializeServices starts the database, then Redis, then RabbitMQ
\* and stops at the first failure; it returns true only when all three
\* succeeded; when it returns false after Redis or RabbitMQ failed, every
\* service initialized before the failing one has been closed; and the HTTP
\* server listens only after it returned true.
C36_Sequence == <<"database", "redis", "rabbitmq">>
C36_OrderedStartup ==
    /\ Len(boot.order) <= 3
    /\ \A i \in 1..Len(boot.order) :
            /\ boot.order[i] = C36_Sequence[i]
            /\ i > 1 => boot.services[C36_Sequence[i - 1]]
    /\ \A s \in {"database", "redis", "rabbitmq"} :
            boot.services[s] => \E i \in 1..Len(boot.order) : boot.order[i] = s
    /\ boot.result = "true" =>
            boot.services.database /\ boot.services.redis /\ boot.services.rabbitmq
    /\ boot.result = "false" =>
            /\ \E s \in {"database", "redis", "rabbitmq"} : ~boot.services[s]
            /\ \A s \in {"database", "redis"} :
                    boot.services[s] => s \in boot.closed /\ s \notin boot.open
    /\ boot.listening => boot.result = "true"
    /\ boot.result # "true" => boot.pc # "listening"
C36_Witness ==
    /\ boot.pc = "exited" /\ boot.result = "false"
    /\ boot.order = C36_Sequence
    /\ boot.services.database /\ boot.services.redis /\ ~boot.services.rabbitmq
    /\ boot.closed = {"database", "redis"}
    /\ boot.open = {"rabbitmq"}

\* the broker holds a message of leave request id: in the main queue,
\* delivered and not acknowledged, or in the dead-letter queue
C37_Held(id) ==
    \/ \E m \in QueueSet : m.content.leaveId = id
    \/ \E w \in DOMAIN unacked : unacked[w].content.leaveId = id
    \/ \E i \in 1..Len(dlq) : dlq[i].content.leaveId = id

\* C37: no adjudication request is lost: a message of a leave request that
\* the broker holds is still held by the broker (main queue, unacknowledged
\* delivery or dead-letter queue) after every step, except the step in
\* which the worker acknowledges it after a successful updateStatus.
C37_NoRequestLost ==
    [][\A id \in 1..MaxLeaves :
          (/\ C37_Held(id)
           /\ ~\E w \in DOMAIN unacked :
                   /\ unacked[w].content.leaveId = id
                   /\ w \notin DOMAIN unacked'
                   /\ calls'[w].outcome = "ack")
          => C37_Held(id)']_vars

\* C38: once a createEmployee into department D has committed and its
\* invalidation has completed, no cache entry departments:D:employees* holds
\* a page computed from the store as it was before the commit: every cached
\* page of D counts the employee the call inserted.
C38_NoStalePage ==
    \A c \in ApiCallers :
        (Done(c, "employee") /\ calls[c].result = Ok) =>
            \A k \in DOMAIN cache :
                (k.kind = "departments" /\ k.dept = calls[c].employee.departmentId) =>
                    cache[k].count =
                        Cardinality({i \in 1..Len(employees) :
                                        employees[i].departmentId = k.dept})

\* C39: the steps of a createEmployee call change the cache only by writing
\* idempotency:employee:<key> after the commit and by deleting keys under
\* departments:<departmentId>:employees* of the created record; employees:all
\* and departments:all stay as they are, and a call whose created record
\* carries no departmentId returns after the record without deleting.
C39_EmployeeCacheEffect ==
    [][\A c \in ApiCallers :
          (calls[c].op = "employee" /\ calls'[c] # calls[c]) =>
              LET r == calls[c]
                  record == IdemKey(Namespace("employee"), r.key)
                  Changed == {k \in DOMAIN cache \cup DOMAIN cache' :
                                 \/ k \notin DOMAIN cache
                                 \/ k \notin DOMAIN cache'
                                 \/ cache'[k] # cache[k]}
              IN  /\ \A k \in Changed :
                        \/ /\ k = record /\ k \in DOMAIN cache'
                           /\ r.txn = 1 /\ r.pc = "record"
                        \/ /\ k.kind = "departments"
                           /\ r.employee.departmentId # Null
                           /\ k.dept = r.employee.departmentId
                           /\ k \notin DOMAIN cache'
                  /\ (r.pc = "record" /\ r.employee.departmentId = Null) =>
                        /\ calls'[c].pc = "done" /\ calls'[c].result = Ok
                        /\ calls'[c].dels = 0
                        /\ DOMAIN cache \subseteq DOMAIN cache']_vars
C39_Witness ==
    \E c \in ApiCallers :
        /\ Done(c, "employee") /\ calls[c].result = Ok
        /\ calls[c].employee.departmentId = "d1" /\ calls[c].dels = 1
        /\ Exists(cache, IdemKey(Namespace("employee"), calls[c].key))
        /\ ~Exists(cache, PageKey("d1", "employees", 1, 1))
        /\ Exists(cache, EmployeesAllKey)
        /\ Exists(cache, DepartmentsAllKey)

\* C40: each validation middleware and idempotencyMiddleware invokes next
\* exactly once per request: a middleware that has run for a request has
\* made one next() call, and no middleware has made more than one.
C40_NextExactlyOnce ==
    \A c \in ApiCallers :
        /\ Len(requests[c].nexts.validator) <= 1
        /\ Len(requests[c].nexts.idempotency) <= 1
        /\ (requests[c] # NoRequest /\ requests[c].todo = <<>>) =>
                Len(requests[c].nexts.validator) = 1

====
